---- MODULE Spec2Model ----
(***************************************************************************)
(* The scrape orchestrator of rpscrape (RPScraper/scripts/rpscrape.py,     *)
(* scrape_races): one pass over a list of result-page URLs, with the       *)
(* per-URL result handling, the consecutive-406 backoff and the run        *)
(* metadata written at the end.                                            *)
(*                                                                         *)
(* Durations are in milliseconds (the source's floats are seconds), the    *)
(* completeness percentage is in hundredths of a percent (the source       *)
(* rounds it to two decimals), random.random() is in thousandths.          *)
(***************************************************************************)
EXTENDS Integers, Sequences, FiniteSets, TLC

\* ------------------------------------------------------------------ bounds
\* Longest URL list explored.
MaxUrls == 5
\* Most rows (runners) one race page yields.
MaxRunners == 2

\* ------------------------------------------------------- program constants
\* base_delay = 1.0 s
base_delay == 1000
\* max_backoff_delay = 60.0 s
max_backoff_delay == 60000
\* the factor 5 of 5 * (2 ** (consecutive_406_errors - 1)), in ms
backoff_start == 5000
\* 'attempts': 7 of the records written for outcomes of the client
client_attempts == 7

\* ------------------------------------------------------------ environment
\* Values random.random() can return, in thousandths: [0.0, 1.0).
RandomDraws == {0, 500, 999}
\* Statuses client.get can return that are not 200 and not the block status.
HttpErrorStatuses == {404, 503}
\* last_sleep when the iteration ended without a call of time.sleep.
NoSleep == -1

VARIABLES
    races,                   \* the URL list handed to scrape_races
    idx,                     \* number of URLs the for loop has taken
    pc,                      \* "loop": in the for loop; "done": returned
    failed_races,            \* list of failure records
    successful_races,
    void_races,
    consecutive_406_errors,
    current_delay,
    csv,                     \* lines written to the output file
    fetched,                 \* URLs passed to client.get, in call order
    outcomes,                \* what happened to each URL taken so far
    last_sleep,              \* time.sleep argument of the last iteration
    metadata,                \* the metadata dict, <<>> until it is built
    pages,                   \* per URL taken: runners on its page, rows written
    metadata_writes,         \* number of json.dump calls on metadata_path
    failure_log,             \* the document at failure_log_path, or NoFile
    client,                  \* one client.get call, attempt by attempt
    analysis,                \* one call of the failure pattern analyzer
    retry,                   \* one run of retry_failed_races.py
    parser,                  \* one race page in the legacy scrape_races
    odds                     \* one call of fraction_to_decimal

\* The state of scrape_races.
orch_vars == <<races, idx, pc, failed_races, successful_races, void_races,
               consecutive_406_errors, current_delay, csv, fetched, outcomes,
               last_sleep, metadata, pages, metadata_writes, failure_log>>

vars == <<orch_vars, client, analysis, retry, parser, odds>>

\* Value of a component's variable in a specification that does not run it.
Idle == "idle"
\* failure_log while failure_log_path does not exist.
NoFile == [written |-> FALSE, total_failures |-> 0, failures |-> <<>>]

Min(a, b) == IF a <= b THEN a ELSE b

\* Variant of BackoffDelay: the min(..., max_backoff_delay) is forgotten.
BackoffDelayUncapped(n) == backoff_start * 2 ^ (n - 1)

\* min(5 * (2 ** (consecutive_406_errors - 1)), max_backoff_delay)
BackoffDelay(n) == Min(backoff_start * 2 ^ (n - 1), max_backoff_delay)

\* current_delay * 0.2 * (random.random() - 0.5) * 2
Jitter(delay, r) == (delay * (r - 500)) \div 2500

\* f'HTTP_{status}'
\* Variant of HttpErrorType: one tag for every status.
HttpErrorType_Generic(status) == "HTTP_ERROR"

\* f'HTTP_{status}'
HttpErrorType(status) == "HTTP_" \o ToString(status)

\* The dict appended to failed_races (the fields derived from the URL alone
\* and the wall-clock timestamp are left out).
FailureRecord(url, error_type, attempts) ==
    [url |-> url, error_type |-> error_type, attempts |-> attempts]

\* Variant of CsvRows: every row also carries a value of the run (the last
\* delay slept), as a scrape timestamp column would.
CsvRows_StampedByRun(url, k) == [j \in 1..k |-> <<url, j, last_sleep>>]

\* The rows race.csv_data holds for a page of k runners.
CsvRows(url, k) == [j \in 1..k |-> <<url, j>>]

\* round(x, 2) of x = num / den * 100, as hundredths: nearest, ties to even.
RoundHalfEven(num, den) ==
    LET q == num \div den
        r == num % den
    IN  IF 2 * r < den THEN q
        ELSE IF 2 * r > den THEN q + 1
        ELSE IF q % 2 = 0 THEN q ELSE q + 1

\* round((successful_races / total_races * 100) if total_races > 0 else 0, 2)
CompletenessPct(successful, total) ==
    IF total > 0 THEN RoundHalfEven(successful * 10000, total) ELSE 0

\* sum(1 for f in failed_races if f.get('error_type') == 'HTTP_406')
Http406Count(failures) ==
    Cardinality({i \in 1..Len(failures) : failures[i].error_type = "HTTP_406"})

\* The (deduplicated, sorted) URL lists get_race_urls / get_race_urls_date
\* return: URLs are numbered in sort order.
UrlLists == {[i \in 1..n |-> i] : n \in 0..MaxUrls}

Init ==
    /\ races \in UrlLists
    /\ idx = 0
    /\ pc = "loop"
    /\ failed_races = <<>>
    /\ successful_races = 0
    /\ void_races = 0
    /\ consecutive_406_errors = 0
    /\ current_delay = base_delay
    /\ csv = <<"header">>
    /\ fetched = <<>>
    /\ outcomes = <<>>
    /\ last_sleep = NoSleep
    /\ metadata = <<>>
    /\ pages = <<>>
    /\ metadata_writes = 0
    /\ failure_log = NoFile
    /\ client = Idle /\ analysis = Idle /\ retry = Idle /\ parser = Idle /\ odds = Idle

\* What one URL's page gave: its number of runners (0 when no page was parsed)
\* and the number of its rows that csv.write wrote.
PageResult(runners, written) == [runners |-> runners, written |-> written]
NoPage == PageResult(0, 0)

\* for url in races: ... status, r = client.get(url)
TakeUrl(outcome) ==
    /\ pc = "loop"
    /\ idx < Len(races)
    /\ idx' = idx + 1
    /\ fetched' = Append(fetched, races[idx + 1])
    /\ outcomes' = Append(outcomes, outcome)
    /\ UNCHANGED <<races, pc, metadata, metadata_writes, failure_log>>
    /\ UNCHANGED <<client, analysis, retry, parser, odds>>

\* The tail of the loop body: the backoff sleep, or the normal delay.
\* `count` is consecutive_406_errors after the try statement.
SleepAfter(count) ==
    IF count > 0
    THEN /\ current_delay' = BackoffDelay(count)
         /\ \E r \in RandomDraws :
                last_sleep' = BackoffDelay(count) + Jitter(BackoffDelay(count), r)
    ELSE /\ last_sleep' = base_delay
         /\ UNCHANGED current_delay

\* As SleepAfter, after the success branch may have reset current_delay.
SleepAfterSuccess ==
    /\ current_delay' = IF consecutive_406_errors > 0 THEN base_delay ELSE current_delay
    /\ last_sleep' = base_delay

\* Variant of HandleHttpError: the continue is taken without the append.
HandleHttpError_Unrecorded ==
    \E status \in HttpErrorStatuses :
        /\ TakeUrl("http_error")
        /\ pages' = Append(pages, NoPage)
        /\ last_sleep' = NoSleep
        /\ UNCHANGED <<failed_races, successful_races, void_races,
                       consecutive_406_errors, current_delay, csv>>

\* if status != 200: ... failed_races.append(...); continue
\* The continue skips the rest of the loop body, the sleep included.
HandleHttpError ==
    \E status \in HttpErrorStatuses :
        /\ TakeUrl("http_error")
        /\ pages' = Append(pages, NoPage)
        /\ failed_races' = Append(failed_races,
               FailureRecord(races[idx + 1], HttpErrorType(status), client_attempts))
        /\ last_sleep' = NoSleep
        /\ UNCHANGED <<successful_races, void_races, consecutive_406_errors,
                       current_delay, csv>>

\* Variant of HandleSuccess: the "Reset backoff on success" block is missing.
HandleSuccess_NoReset ==
    \E k \in 1..MaxRunners :
        /\ TakeUrl("success")
        /\ pages' = Append(pages, PageResult(k, k))
        /\ csv' = csv \o CsvRows(races[idx + 1], k)
        /\ successful_races' = successful_races + 1
        /\ UNCHANGED <<consecutive_406_errors, failed_races, void_races>>
        /\ SleepAfter(consecutive_406_errors)

\* Race(...) built, every row written, successful_races += 1, backoff reset.
HandleSuccess ==
    \E k \in 1..MaxRunners :
        /\ TakeUrl("success")
        /\ pages' = Append(pages, PageResult(k, k))
        /\ csv' = csv \o CsvRows(races[idx + 1], k)
        /\ successful_races' = successful_races + 1
        /\ consecutive_406_errors' = 0
        /\ SleepAfterSuccess
        /\ UNCHANGED <<failed_races, void_races>>

\* Variant of HandleBlocked: the count is set to 1 instead of incremented.
HandleBlocked_CountSetToOne ==
    /\ TakeUrl("blocked")
    /\ pages' = Append(pages, NoPage)
    /\ consecutive_406_errors' = 1
    /\ failed_races' = Append(failed_races,
           FailureRecord(races[idx + 1], "HTTP_406", client_attempts))
    /\ SleepAfter(1)
    /\ UNCHANGED <<successful_races, void_races, csv>>

\* except Persistent406Error
HandleBlocked ==
    /\ TakeUrl("blocked")
    /\ pages' = Append(pages, NoPage)
    /\ consecutive_406_errors' = consecutive_406_errors + 1
    /\ failed_races' = Append(failed_races,
           FailureRecord(races[idx + 1], "HTTP_406", client_attempts))
    /\ SleepAfter(consecutive_406_errors + 1)
    /\ UNCHANGED <<successful_races, void_races, csv>>

\* Variant of HandleVoid: the void race is also logged as a parse error.
HandleVoid_AsParseError ==
    /\ TakeUrl("void")
    /\ pages' = Append(pages, NoPage)
    /\ void_races' = void_races + 1
    /\ failed_races' = Append(failed_races,
           FailureRecord(races[idx + 1], "PARSE_ERROR", 1))
    /\ SleepAfter(consecutive_406_errors)
    /\ UNCHANGED <<successful_races, consecutive_406_errors, csv>>

\* except VoidRaceError
HandleVoid ==
    /\ TakeUrl("void")
    /\ pages' = Append(pages, NoPage)
    /\ void_races' = void_races + 1
    /\ SleepAfter(consecutive_406_errors)
    /\ UNCHANGED <<failed_races, successful_races, consecutive_406_errors, csv>>

\* Variant of HandleParseError: the parse error escalates the backoff.
HandleParseError_AsBlock ==
    /\ TakeUrl("parse_error")
    /\ pages' = Append(pages, NoPage)
    /\ consecutive_406_errors' = consecutive_406_errors + 1
    /\ failed_races' = Append(failed_races,
           FailureRecord(races[idx + 1], "PARSE_ERROR", 1))
    /\ SleepAfter(consecutive_406_errors + 1)
    /\ UNCHANGED <<successful_races, void_races, csv>>

\* Variant of HandleParseError: the record is written as for a block.
HandleParseError_TaggedAsBlock ==
    /\ TakeUrl("parse_error")
    /\ pages' = Append(pages, NoPage)
    /\ failed_races' = Append(failed_races,
           FailureRecord(races[idx + 1], "HTTP_406", client_attempts))
    /\ SleepAfter(consecutive_406_errors)
    /\ UNCHANGED <<successful_races, void_races, consecutive_406_errors, csv>>

\* except RaceParseError
HandleParseError ==
    /\ TakeUrl("parse_error")
    /\ pages' = Append(pages, NoPage)
    /\ failed_races' = Append(failed_races,
           FailureRecord(races[idx + 1], "PARSE_ERROR", 1))
    /\ SleepAfter(consecutive_406_errors)
    /\ UNCHANGED <<successful_races, void_races, consecutive_406_errors, csv>>

\* Variant of HandleException: no handler, the exception leaves scrape_races.
HandleException_Propagates ==
    /\ pc = "loop"
    /\ idx < Len(races)
    /\ idx' = idx + 1
    /\ fetched' = Append(fetched, races[idx + 1])
    /\ outcomes' = Append(outcomes, "exception")
    /\ pages' = Append(pages, NoPage)
    /\ pc' = "done"
    /\ UNCHANGED <<races, metadata, failed_races, successful_races, void_races,
                   consecutive_406_errors, current_delay, csv, last_sleep,
                   metadata_writes, failure_log>>
    /\ UNCHANGED <<client, analysis, retry, parser, odds>>

\* except Exception, raised by client.get (a network failure) or by Race(...)
\* before any row is written.
HandleException ==
    /\ TakeUrl("exception")
    /\ pages' = Append(pages, NoPage)
    /\ failed_races' = Append(failed_races,
           FailureRecord(races[idx + 1], "EXCEPTION", 1))
    /\ SleepAfter(consecutive_406_errors)
    /\ UNCHANGED <<successful_races, void_races, consecutive_406_errors, csv>>

\* except Exception, raised by csv.write after j of the page's k rows.
HandleWriteError ==
    \E k \in 1..MaxRunners : \E j \in 1..(k - 1) :
        /\ TakeUrl("write_error")
        /\ pages' = Append(pages, PageResult(k, j))
        /\ csv' = csv \o CsvRows(races[idx + 1], j)
        /\ failed_races' = Append(failed_races,
               FailureRecord(races[idx + 1], "EXCEPTION", 1))
        /\ SleepAfter(consecutive_406_errors)
        /\ UNCHANGED <<successful_races, void_races, consecutive_406_errors>>

\* json.dump({'scrape_timestamp': ..., 'total_failures': len(failed_races),
\*            'failures': failed_races}, f, indent=2)
FailureLogDoc(failures) ==
    [written |-> TRUE, total_failures |-> Len(failures), failures |-> failures]

\* Variant of Finish: the failure log is written whether or not a race failed.
Finish_LogAlwaysWritten ==
    /\ pc = "loop"
    /\ idx = Len(races)
    /\ pc' = "done"
    /\ metadata' = [total_races_discovered |-> Len(races),
                    successful_races |-> successful_races,
                    void_races |-> void_races,
                    failed_races |-> Len(failed_races),
                    completeness_pct |-> CompletenessPct(successful_races, Len(races)),
                    http_406_errors |-> Http406Count(failed_races)]
    /\ metadata_writes' = metadata_writes + 1
    /\ failure_log' = FailureLogDoc(failed_races)
    /\ UNCHANGED <<races, idx, failed_races, successful_races, void_races,
                   consecutive_406_errors, current_delay, csv, fetched,
                   outcomes, last_sleep, pages>>
    /\ UNCHANGED <<client, analysis, retry, parser, odds>>

\* After the loop: the metadata dict is built and written to metadata_path, the
\* failure log is written if failed_races is not empty, the function returns.
Finish ==
    /\ pc = "loop"
    /\ idx = Len(races)
    /\ pc' = "done"
    /\ metadata' = [total_races_discovered |-> Len(races),
                    successful_races |-> successful_races,
                    void_races |-> void_races,
                    failed_races |-> Len(failed_races),
                    completeness_pct |-> CompletenessPct(successful_races, Len(races)),
                    http_406_errors |-> Http406Count(failed_races)]
    /\ metadata_writes' = metadata_writes + 1
    /\ failure_log' = IF failed_races # <<>> THEN FailureLogDoc(failed_races)
                      ELSE failure_log
    /\ UNCHANGED <<races, idx, failed_races, successful_races, void_races,
                   consecutive_406_errors, current_delay, csv, fetched,
                   outcomes, last_sleep, pages>>
    /\ UNCHANGED <<client, analysis, retry, parser, odds>>

Next ==
    \/ HandleHttpError
    \/ HandleSuccess
    \/ HandleBlocked
    \/ HandleVoid
    \/ HandleParseError
    \/ HandleException
    \/ HandleWriteError
    \/ Finish

Spec == Init /\ [][Next]_vars

\* ----------------------------------------------------------------- helpers
\* Number of URLs taken so far whose outcome was `kind`.
CountOf(kind) == Cardinality({i \in 1..Len(outcomes) : outcomes[i] = kind})

\* Outcomes the orchestrator records as a failure.
FailureKinds == {"http_error", "blocked", "parse_error", "exception", "write_error"}

\* A step in which the loop handles one URL with outcome `kind`.
Handled(kind) == idx' = idx + 1 /\ outcomes'[idx'] = kind

\* The URL handled by the step.
HandledUrl == races[idx']

\* ------------------------------------------------------------------ claims

\* C1: a single URL's failure never aborts the run. Whatever the outcomes,
\* the URLs fetched so far are exactly the first idx URLs of the list, each
\* once and in list order, and when scrape_races has returned every URL of
\* the list has been fetched, those after a failing URL included.
C1_EveryUrlFetchedOnceInOrder ==
    /\ fetched = SubSeq(races, 1, idx)
    /\ Len(outcomes) = idx
    /\ pc = "done" => idx = Len(races) /\ fetched = races

\* C1 witness: a finished run of five URLs whose first four fail, each in a
\* different way, and whose fifth is still scraped.
C1_Witness ==
    /\ pc = "done"
    /\ outcomes = <<"exception", "blocked", "http_error", "parse_error", "success">>
    /\ fetched = races

\* The part of C2 on the counters: at the end of a run every URL is counted
\* in exactly one of successful, void or failed; the metadata reports these
\* counters; failed_races is the number of failure records, one per failed
\* URL; and the 5-URL scenario (3 parse, 1 blocked, 1 parse error) reports
\* successful = 3, failed = 2, void = 0, completeness 60.0 with one HTTP_406
\* record and one PARSE_ERROR record.
C2_Counts ==
    LET n == Len(races) IN
    /\ successful_races + void_races + Len(failed_races) = n
    /\ successful_races = CountOf("success")
    /\ void_races = CountOf("void")
    /\ metadata.total_races_discovered = n
    /\ metadata.successful_races = successful_races
    /\ metadata.void_races = void_races
    /\ metadata.failed_races = Len(failed_races)
    /\ \A i \in 1..n :
          Cardinality({j \in 1..Len(failed_races) : failed_races[j].url = races[i]})
              = IF outcomes[i] \in FailureKinds THEN 1 ELSE 0
    /\ n = 0 => metadata.completeness_pct = 0
    /\ (n = 5 /\ CountOf("success") = 3 /\ CountOf("blocked") = 1
            /\ CountOf("parse_error") = 1)
        => /\ metadata.successful_races = 3
           /\ metadata.failed_races = 2
           /\ metadata.void_races = 0
           /\ metadata.completeness_pct = 6000
           /\ Len(failed_races) = 2
           /\ {failed_races[j].error_type : j \in 1..2} = {"HTTP_406", "PARSE_ERROR"}

\* C2 as stated: at the end of a run the counters add up to N (C2_Counts) and
\* completeness_pct is exactly successful / N x 100.
C2_Original ==
    pc = "done" =>
        /\ C2_Counts
        /\ metadata.completeness_pct * Len(races) = successful_races * 10000

\* C2 as amended: at the end of a run the counters add up to N (C2_Counts) and
\* completeness_pct is successful / N x 100 rounded to two decimals, that is
\* within half a hundredth of the exact quotient.
C2_Amended ==
    pc = "done" =>
        /\ C2_Counts
        /\ LET d == metadata.completeness_pct * Len(races) - successful_races * 10000
           IN  2 * d <= Len(races) /\ -2 * d <= Len(races)

\* C2 witness: the end of the 5-URL scenario of the claim.
C2_Witness ==
    /\ pc = "done"
    /\ Len(races) = 5
    /\ CountOf("success") = 3 /\ CountOf("blocked") = 1 /\ CountOf("parse_error") = 1

\* C3 as stated: with n >= 1 consecutive blocks the pre-jitter delay is 5, 10,
\* 20 s for n = 1, 2, 3, never decreases when n grows, and is the maximum
\* (60 s) for every n larger than 3.
C3_Original ==
    [][ /\ consecutive_406_errors' = 1 => current_delay' = 5000
        /\ consecutive_406_errors' = 2 => current_delay' = 10000
        /\ consecutive_406_errors' = 3 => current_delay' = 20000
        /\ consecutive_406_errors' > 3 => current_delay' = 60000
        /\ (consecutive_406_errors >= 1 /\ consecutive_406_errors' > consecutive_406_errors)
              => current_delay' >= current_delay ]_vars

\* C3 as amended: with n >= 1 consecutive blocks the pre-jitter delay is 5, 10,
\* 20, 40 s for n = 1, 2, 3, 4, never decreases when n grows, never exceeds the
\* maximum and is the maximum (60 s) for every n >= 5.
C3_Amended ==
    [][ /\ consecutive_406_errors' = 1 => current_delay' = 5000
        /\ consecutive_406_errors' = 2 => current_delay' = 10000
        /\ consecutive_406_errors' = 3 => current_delay' = 20000
        /\ consecutive_406_errors' = 4 => current_delay' = 40000
        /\ consecutive_406_errors' >= 5 => current_delay' = 60000
        /\ current_delay' <= 60000
        /\ (consecutive_406_errors >= 1 /\ consecutive_406_errors' > consecutive_406_errors)
              => current_delay' >= current_delay ]_vars

\* C3 witness: a fifth consecutive block, after which the delay is the cap.
C3_Witness ==
    /\ consecutive_406_errors = 5
    /\ outcomes[idx] = "blocked"
    /\ current_delay = 60000

\* C4: after every URL that is fetched and parsed successfully the
\* consecutive-block count is 0, the current delay is the normal delay and the
\* sleep before the next URL is the normal inter-request delay.
C4_SuccessResetsBackoff ==
    (idx >= 1 /\ outcomes[idx] = "success") =>
        /\ consecutive_406_errors = 0
        /\ current_delay = base_delay
        /\ last_sleep = base_delay

\* C4 witness: a success that follows two consecutive blocks.
C4_Witness ==
    /\ idx >= 3
    /\ outcomes[idx] = "success"
    /\ outcomes[idx - 1] = "blocked"
    /\ outcomes[idx - 2] = "blocked"

\* C5: each persistent block (Persistent406Error) appends exactly one failure
\* record for that URL, tagged HTTP_406, raises the consecutive-block count by
\* exactly one, writes no output row, is fetched once, and leaves the loop
\* running for the next URL.
C5_BlockRecordedAndCounted ==
    [][ Handled("blocked") =>
          /\ Len(failed_races') = Len(failed_races) + 1
          /\ SubSeq(failed_races', 1, Len(failed_races)) = failed_races
          /\ failed_races'[Len(failed_races')].url = HandledUrl
          /\ failed_races'[Len(failed_races')].error_type = "HTTP_406"
          /\ consecutive_406_errors' = consecutive_406_errors + 1
          /\ csv' = csv
          /\ successful_races' = successful_races
          /\ void_races' = void_races
          /\ fetched' = Append(fetched, HandledUrl)
          /\ pc' = "loop" ]_vars

\* C5 witness: a block handled when the count was already 2, with a URL left.
C5_Witness ==
    /\ idx >= 3
    /\ idx < Len(races)
    /\ outcomes[idx] = "blocked"
    /\ consecutive_406_errors = 3
    /\ pc = "loop"

\* C6: a failure that is not a block (HTTP error status, network error or
\* unexpected exception, parse error) leaves the consecutive-block count
\* exactly as it was: no increment and no reset.
C6_NonBlockFailureKeepsCount ==
    [][ (idx' = idx + 1 /\ outcomes'[idx'] \in FailureKinds \ {"blocked"})
          => consecutive_406_errors' = consecutive_406_errors ]_vars

\* C6 witness: a parse error handled while the count is 2, after an HTTP error
\* status and an exception that kept it at 2.
C6_Witness ==
    /\ idx = 5
    /\ outcomes = <<"blocked", "blocked", "http_error", "exception", "parse_error">>
    /\ consecutive_406_errors = 2

\* C7: a void race writes no row, records no failure (so never a PARSE_ERROR),
\* raises the void count by exactly one, is fetched once (no retry), leaves the
\* consecutive-block count unchanged and starts no backoff: when no block is
\* outstanding the sleep after it is the normal delay.
C7_VoidIsNotAFailure ==
    [][ Handled("void") =>
          /\ csv' = csv
          /\ failed_races' = failed_races
          /\ void_races' = void_races + 1
          /\ successful_races' = successful_races
          /\ fetched' = Append(fetched, HandledUrl)
          /\ consecutive_406_errors' = consecutive_406_errors
          /\ consecutive_406_errors = 0 =>
                 last_sleep' = base_delay /\ current_delay' = base_delay
          /\ pc' = "loop" ]_vars

\* C7 witness: two void races in a run without any block, with a URL left.
C7_Witness ==
    /\ idx >= 2
    /\ idx < Len(races)
    /\ outcomes[idx] = "void"
    /\ void_races = 2
    /\ consecutive_406_errors = 0
    /\ failed_races = <<>>

\* C8: a parse error or an unexpected exception appends exactly one failure
\* record for that URL, with attempt count 1 and error type PARSE_ERROR (for a
\* parse error) or EXCEPTION (never the block type); the URL is fetched once
\* (no inline retry) and the loop goes on.
C8_ParseErrorRecordedOnce ==
    [][ (idx' = idx + 1 /\ outcomes'[idx'] \in {"parse_error", "exception", "write_error"})
          => /\ Len(failed_races') = Len(failed_races) + 1
             /\ SubSeq(failed_races', 1, Len(failed_races)) = failed_races
             /\ failed_races'[Len(failed_races')].url = HandledUrl
             /\ failed_races'[Len(failed_races')].attempts = 1
             /\ failed_races'[Len(failed_races')].error_type =
                    IF outcomes'[idx'] = "parse_error" THEN "PARSE_ERROR" ELSE "EXCEPTION"
             /\ fetched' = Append(fetched, HandledUrl)
             /\ pc' = "loop" ]_vars

\* C8 witness: a parse error and an exception recorded one after the other,
\* with a URL left to process.
C8_Witness ==
    /\ idx >= 2
    /\ idx < Len(races)
    /\ outcomes[idx] = "parse_error"
    /\ outcomes[idx - 1] = "exception"
    /\ Len(failed_races) >= 2
    /\ failed_races[Len(failed_races)].attempts = 1

\* C9: between the fetch of a URL and the fetch of the next URL of the list
\* scrape_races sleeps, whatever the first URL's outcome was.
C9_AlwaysSleepsBetweenRequests ==
    (idx >= 1 /\ idx < Len(races) /\ pc = "loop") => last_sleep # NoSleep

\* C10: every sleep scrape_races performs lasts at most the maximum backoff
\* delay (60 s).
C10_SleepBoundedByCap ==
    last_sleep <= 60000

\* C15: the run metadata is written exactly once per run, only when the URL
\* loop has taken every URL, and neither it nor the count of its writes
\* changes afterwards; the failure log exists if and only if the run has
\* returned with at least one failure record, and then holds exactly the
\* failure records, one entry per record.
C15_MetadataOnceLogIffFailures ==
    /\ [](/\ metadata_writes = (IF pc = "done" THEN 1 ELSE 0)
          /\ metadata_writes >= 1 =>
                 /\ idx = Len(races)
                 /\ metadata.total_races_discovered = Len(races)
                 /\ metadata.failed_races = Len(failed_races)
          /\ failure_log.written <=> (pc = "done" /\ Len(failed_races) >= 1)
          /\ failure_log.written =>
                 /\ failure_log.failures = failed_races
                 /\ failure_log.total_failures = Len(failed_races))
    /\ [][metadata_writes >= 1 =>
              /\ metadata' = metadata
              /\ metadata_writes' = metadata_writes
              /\ failure_log' = failure_log]_vars

\* C15 witness: a finished run with two failures: metadata written once and a
\* failure log of two entries.
C15_Witness ==
    /\ pc = "done"
    /\ metadata_writes = 1
    /\ failure_log.written
    /\ Len(failure_log.failures) = 2
    /\ successful_races >= 1

\* C16: between two URLs (the loop has taken a URL and has not returned) every
\* failure recorded so far is already in the failure log, and the output file
\* holds exactly the rows of the URLs that succeeded so far.
C16_FailuresPersistedPerFailure ==
    (pc = "loop" /\ idx >= 1 /\ idx < Len(races)) =>
        /\ failed_races # <<>> =>
               failure_log.written /\ failure_log.failures = failed_races
        /\ Len(csv) = 1 + Cardinality({<<i, j>> \in (1..idx) \X (1..MaxRunners) :
                                          outcomes[i] = "success" /\ j <= pages[i].runners})

\* The rows the pages of the first i URLs put in the output file.
RECURSIVE RowsOfPages(_)
RowsOfPages(i) ==
    IF i = 0 THEN <<>>
    ELSE RowsOfPages(i - 1) \o [j \in 1..pages[i].written |-> <<races[i], j>>]

MaxFailures == 6

\* Error types of the records: the block type and one other.
AnalyzerErrorTypes == {"HTTP_406", "PARSE_ERROR"}
\* 'timestamp' values, in seconds after the start of the run.
AnalyzerTimestamps == {0, 119, 120}

\* The failure lists: each record with its error type and its timestamp.
AnalyzerInputs ==
    UNION {[1..n -> [error_type : AnalyzerErrorTypes, timestamp : AnalyzerTimestamps]] :
               n \in 0..MaxFailures}

\* list.sort(): insertion of x into the sorted list ts.
RECURSIVE SortedInsert(_, _)
SortedInsert(ts, x) ==
    IF ts = <<>> THEN <<x>>
    ELSE IF x <= Head(ts) THEN <<x>> \o ts
    ELSE <<Head(ts)>> \o SortedInsert(Tail(ts), x)

\* timestamps = [datetime.fromisoformat(f['timestamp']) ...]; timestamps.sort()
RECURSIVE SortedTimestamps(_)
SortedTimestamps(failures) ==
    IF failures = <<>> THEN <<>>
    ELSE SortedInsert(SortedTimestamps(Tail(failures)), Head(failures).timestamp)

\* Variant of is_likely_rate_limited: the share test is >= 0.5 instead of > 0.5.
is_likely_rate_limited_AtLeastHalf(failures) ==
    IF failures = <<>> THEN FALSE
    ELSE IF 2 * Http406Count(failures) >= Len(failures) THEN TRUE
    ELSE IF Len(failures) >= 3
            /\ LET ts == SortedTimestamps(failures)
               IN  ts[Len(ts)] - ts[1] < 120
         THEN TRUE
    ELSE FALSE

\* Variant of is_likely_rate_limited: the share test is left out, only the
\* time window decides.
is_likely_rate_limited_BurstOnly(failures) ==
    IF failures = <<>> THEN FALSE
    ELSE IF Len(failures) >= 3
            /\ LET ts == SortedTimestamps(failures)
               IN  ts[Len(ts)] - ts[1] < 120
         THEN TRUE
    ELSE FALSE

\* is_likely_rate_limited(failed_races); http_406_count / len > 0.5 is
\* 2 * http_406_count > len.
is_likely_rate_limited(failures) ==
    IF failures = <<>> THEN FALSE
    ELSE IF 2 * Http406Count(failures) > Len(failures) THEN TRUE
    ELSE IF Len(failures) >= 3
            /\ LET ts == SortedTimestamps(failures)
               IN  ts[Len(ts)] - ts[1] < 120
         THEN TRUE
    ELSE FALSE

\* Variant of analyze_error_pattern: the 80% test is >= 0.8 instead of > 0.8.
analyze_error_pattern_AtLeast80(failures) ==
    LET count == Http406Count(failures)
        total == Len(failures)
    IN  IF failures = <<>> THEN "none"
        ELSE IF count = 0 THEN "other_errors"
        ELSE IF count = total THEN "all_rate_limited"
        ELSE IF 5 * count >= 4 * total THEN "mostly_rate_limited"
        ELSE IF 2 * count >= total THEN "mixed_with_rate_limiting"
        ELSE "other_errors"

\* analyze_error_pattern(failed_races); count / total > 0.8 is
\* 5 * count > 4 * total, count / total >= 0.5 is 2 * count >= total.
analyze_error_pattern(failures) ==
    LET count == Http406Count(failures)
        total == Len(failures)
    IN  IF failures = <<>> THEN "none"
        ELSE IF count = 0 THEN "other_errors"
        ELSE IF count = total THEN "all_rate_limited"
        ELSE IF 5 * count > 4 * total THEN "mostly_rate_limited"
        ELSE IF 2 * count >= total THEN "mixed_with_rate_limiting"
        ELSE "other_errors"

AnalyzerInit ==
    /\ analysis \in {[stage |-> "input", failures |-> f, rate_limited |-> FALSE,
                      error_pattern |-> ""] : f \in AnalyzerInputs}
    /\ races = <<>> /\ idx = 0 /\ pc = Idle /\ failed_races = <<>>
    /\ successful_races = 0 /\ void_races = 0 /\ consecutive_406_errors = 0
    /\ current_delay = base_delay /\ csv = <<>> /\ fetched = <<>> /\ outcomes = <<>>
    /\ last_sleep = NoSleep /\ metadata = <<>> /\ pages = <<>>
    /\ metadata_writes = 0 /\ failure_log = NoFile
    /\ client = Idle /\ retry = Idle /\ parser = Idle /\ odds = Idle

\* rate_limited = is_likely_rate_limited(failed_races)
\* error_pattern = analyze_error_pattern(failed_races)
AnalyzeFailures ==
    /\ analysis.stage = "input"
    /\ analysis' = [stage |-> "analysed",
                    failures |-> analysis.failures,
                    rate_limited |-> is_likely_rate_limited(analysis.failures),
                    error_pattern |-> analyze_error_pattern(analysis.failures)]
    /\ UNCHANGED <<orch_vars, client, retry, parser, odds>>

AnalyzerNext == AnalyzeFailures

SpecAnalyzer == AnalyzerInit /\ [][AnalyzerNext]_vars

\* Number of block-type records of the analysed list.
BlockShare == Cardinality({i \in 1..Len(analysis.failures) :
                              analysis.failures[i].error_type = "HTTP_406"})

\* C13: is_likely_rate_limited is true exactly when more than half of the
\* failures are block-type, or there are three or more failures and any two of
\* them are less than 120 s apart; it is false for the empty list; and the
\* call leaves the failure list as it was.
C13_RateLimitedIffMajorityOrBurst ==
    [][analysis'.stage = "analysed" =>
          LET f == analysis'.failures
              n == Len(f)
              blocks == Cardinality({i \in 1..n : f[i].error_type = "HTTP_406"})
          IN  /\ analysis'.rate_limited <=>
                     \/ n >= 1 /\ 2 * blocks > n
                     \/ /\ n >= 3
                        /\ \A i, j \in 1..n : f[i].timestamp - f[j].timestamp < 120
              /\ n = 0 => ~analysis'.rate_limited
              /\ f = analysis.failures]_vars

\* C13 witness: three failures, one of them a block, at most 119 s apart and not
\* in time order: rate limited by the time window alone.
C13_Witness ==
    /\ analysis.stage = "analysed"
    /\ Len(analysis.failures) = 3
    /\ BlockShare = 1
    /\ analysis.failures[1].timestamp = 119
    /\ analysis.failures[2].timestamp = 0
    /\ analysis.rate_limited

\* C14: analyze_error_pattern gives every failure list exactly one of five
\* labels, decided by the number b of block-type failures and the total n
\* alone: none when n = 0, all_rate_limited when b = n > 0, mostly_rate_limited
\* when 80% < b/n < 100%, mixed_with_rate_limiting when 50% <= b/n <= 80%,
\* other_errors when b/n < 50%.
C14_PatternByBlockShare ==
    (analysis.stage = "analysed") =>
        LET n == Len(analysis.failures)
            b == BlockShare
        IN  analysis.error_pattern =
                CASE n = 0 -> "none"
                  [] n > 0 /\ b = n -> "all_rate_limited"
                  [] b < n /\ 5 * b > 4 * n -> "mostly_rate_limited"
                  [] n > 0 /\ 2 * b >= n /\ 5 * b <= 4 * n -> "mixed_with_rate_limiting"
                  [] n > 0 /\ 2 * b < n -> "other_errors"

\* C14 witness: five block-type failures out of six: mostly_rate_limited.
C14_Witness ==
    /\ analysis.stage = "analysed"
    /\ Len(analysis.failures) = 6
    /\ BlockShare = 5
    /\ analysis.error_pattern = "mostly_rate_limited"

\* --------------------------------------------------- retrieval client
\* The status the publisher answers with when it blocks a request.
block_status == 406
\* Stands for an attempt whose connection fails: no status at all.
ConnectionFailed == 0

\* What one attempt of the client can get back.
ClientResponses == {200, block_status, ConnectionFailed} \cup HttpErrorStatuses

ClientInit ==
    /\ client \in {[url |-> u, phase |-> "start", calls |-> 0, responses |-> <<>>,
                    outcome |-> "pending", status |-> 0] : u \in 1..MaxUrls}
    /\ races = <<client.url>> /\ idx = 0 /\ pc = Idle /\ failed_races = <<>>
    /\ successful_races = 0 /\ void_races = 0 /\ consecutive_406_errors = 0
    /\ current_delay = base_delay /\ csv = <<>> /\ fetched = <<>> /\ outcomes = <<>>
    /\ last_sleep = NoSleep /\ metadata = <<>> /\ pages = <<>>
    /\ metadata_writes = 0 /\ failure_log = NoFile
    /\ analysis = Idle /\ retry = Idle /\ parser = Idle /\ odds = Idle

ClientUnchanged == UNCHANGED <<races, idx, pc, successful_races, void_races, current_delay,
                               csv, fetched, outcomes, last_sleep, metadata, pages,
                               metadata_writes, failure_log, analysis, retry, parser, odds>>

\* status, r = client.get(url): the orchestrator's one call for the URL.
ClientGet ==
    /\ client.phase = "start"
    /\ client' = [client EXCEPT !.phase = "fetching", !.calls = @ + 1]
    /\ UNCHANGED <<failed_races, consecutive_406_errors>>
    /\ ClientUnchanged

\* One attempt of the client ends the call with the given outcome.
ClientReturn(response, outcome) ==
    client' = [client EXCEPT !.phase = "returned",
                             !.responses = Append(@, response),
                             !.outcome = outcome,
                             !.status = response]

\* An attempt answered 200: Success.
ClientAttemptSuccess ==
    /\ client.phase = "fetching"
    /\ ClientReturn(200, "Success")
    /\ UNCHANGED <<failed_races, consecutive_406_errors>>
    /\ ClientUnchanged

\* An attempt answered with another error status: HttpError at once.
ClientAttemptHttpError ==
    /\ client.phase = "fetching"
    /\ \E status \in HttpErrorStatuses : ClientReturn(status, "HttpError")
    /\ UNCHANGED <<failed_races, consecutive_406_errors>>
    /\ ClientUnchanged

\* An attempt whose connection fails: NetworkError.
ClientAttemptNetworkError ==
    /\ client.phase = "fetching"
    /\ ClientReturn(ConnectionFailed, "NetworkError")
    /\ UNCHANGED <<failed_races, consecutive_406_errors>>
    /\ ClientUnchanged

\* Variant of ClientAttemptBlocked: the first block status ends the call.
ClientAttemptBlocked_NoRetry ==
    /\ client.phase = "fetching"
    /\ ClientReturn(block_status, "BlockedPersistent")
    /\ UNCHANGED <<failed_races, consecutive_406_errors>>
    /\ ClientUnchanged

\* An attempt answered with the block status: retried while the budget of
\* client_attempts lasts, BlockedPersistent when it is used up.
ClientAttemptBlocked ==
    /\ client.phase = "fetching"
    /\ IF Len(client.responses) + 1 < client_attempts
       THEN client' = [client EXCEPT !.responses = Append(@, block_status)]
       ELSE ClientReturn(block_status, "BlockedPersistent")
    /\ UNCHANGED <<failed_races, consecutive_406_errors>>
    /\ ClientUnchanged

\* status == 200: the body goes on to the parser.
FetchedSuccess ==
    /\ client.phase = "returned" /\ client.outcome = "Success"
    /\ client' = [client EXCEPT !.phase = "handled"]
    /\ UNCHANGED <<failed_races, consecutive_406_errors>>
    /\ ClientUnchanged

\* if status != 200: failed_races.append({... f'HTTP_{status}' ...}); continue
FetchedHttpError ==
    /\ client.phase = "returned" /\ client.outcome = "HttpError"
    /\ client' = [client EXCEPT !.phase = "handled"]
    /\ failed_races' = Append(failed_races,
           FailureRecord(client.url, HttpErrorType(client.status), client_attempts))
    /\ UNCHANGED consecutive_406_errors
    /\ ClientUnchanged

\* except Persistent406Error
FetchedBlocked ==
    /\ client.phase = "returned" /\ client.outcome = "BlockedPersistent"
    /\ client' = [client EXCEPT !.phase = "handled"]
    /\ consecutive_406_errors' = consecutive_406_errors + 1
    /\ failed_races' = Append(failed_races,
           FailureRecord(client.url, "HTTP_406", client_attempts))
    /\ ClientUnchanged

\* except Exception
FetchedNetworkError ==
    /\ client.phase = "returned" /\ client.outcome = "NetworkError"
    /\ client' = [client EXCEPT !.phase = "handled"]
    /\ failed_races' = Append(failed_races, FailureRecord(client.url, "EXCEPTION", 1))
    /\ UNCHANGED consecutive_406_errors
    /\ ClientUnchanged

ClientNext ==
    \/ ClientGet
    \/ ClientAttemptSuccess
    \/ ClientAttemptHttpError
    \/ ClientAttemptNetworkError
    \/ ClientAttemptBlocked
    \/ FetchedSuccess
    \/ FetchedHttpError
    \/ FetchedBlocked
    \/ FetchedNetworkError

SpecClient == ClientInit /\ [][ClientNext]_vars

\* C11: for one URL the client makes at most 7 attempts; it makes another
\* attempt only after a block status; the outcome is BlockedPersistent exactly
\* when 7 attempts were made and every one got the block status; and the URL
\* gets one outcome, which never changes once it is produced.
C11_SevenAttemptsBlockOnly ==
    /\ [](/\ Len(client.responses) <= 7
          /\ client.calls <= 1
          /\ \A i \in 1..(Len(client.responses) - 1) : client.responses[i] = 406
          /\ client.outcome = "pending" <=> client.phase \in {"start", "fetching"}
          /\ client.outcome = "BlockedPersistent" <=>
                 /\ Len(client.responses) = 7
                 /\ \A i \in 1..7 : client.responses[i] = 406)
    /\ [][client.outcome # "pending" =>
              /\ client'.outcome = client.outcome
              /\ client'.responses = client.responses
              /\ client'.calls = client.calls]_vars

\* C11 witness: the seventh attempt got the block status like the six before
\* it and the orchestrator has recorded the URL as blocked.
C11_Witness ==
    /\ client.phase = "handled"
    /\ client.outcome = "BlockedPersistent"
    /\ Len(client.responses) = 7
    /\ consecutive_406_errors = 1

MaxLogged == 2

\* failed_races of a finished run with at least one failure.
LoggedFailures ==
    UNION {[1..n -> {FailureRecord(u, t, a) :
                        u \in 1..MaxUrls, t \in {"HTTP_406"}, a \in {client_attempts}}
                    \cup {FailureRecord(u, t, a) :
                        u \in 1..MaxUrls, t \in {"PARSE_ERROR"}, a \in {1}}] :
               n \in 1..MaxLogged}

NoLogFile == [suffix |-> "", lines |-> <<>>]

\* json.dump(..., indent=2) of one failure record: one line per field, the
\* key in double quotes and lower case as in the dict.
JsonLinesOfRecord(f) ==
    << [key |-> "\"url\": ", text |-> ToString(f.url)],
       [key |-> "\"error_type\": ", text |-> f.error_type],
       [key |-> "\"attempts\": ", text |-> ToString(f.attempts)] >>

RECURSIVE JsonLinesOf(_)
JsonLinesOf(failures) ==
    IF failures = <<>> THEN <<>>
    ELSE JsonLinesOfRecord(Head(failures)) \o JsonLinesOf(Tail(failures))

\* failure_log_path = f'{out_dir}/{file_name}_failures.json' and the document
\* written to it.
WrittenFailureLog(failures) ==
    [suffix |-> "_failures.json",
     lines |-> <<[key |-> "\"total_failures\": ", text |-> ToString(Len(failures))]>>
               \o JsonLinesOf(failures)]

RetryInit ==
    /\ retry \in {[phase |-> "scraped", failures |-> f, file |-> NoLogFile,
                   found |-> 0, resubmitted |-> <<>>] : f \in LoggedFailures}
    /\ races = <<>> /\ idx = 0 /\ pc = Idle /\ failed_races = <<>>
    /\ successful_races = 0 /\ void_races = 0 /\ consecutive_406_errors = 0
    /\ current_delay = base_delay /\ csv = <<>> /\ fetched = <<>> /\ outcomes = <<>>
    /\ last_sleep = NoSleep /\ metadata = <<>> /\ pages = <<>>
    /\ metadata_writes = 0 /\ failure_log = NoFile
    /\ client = Idle /\ analysis = Idle /\ parser = Idle /\ odds = Idle

\* scrape_races: if failed_races: json.dump({...}, f, indent=2)
WriteFailureLog ==
    /\ retry.phase = "scraped"
    /\ retry' = [retry EXCEPT !.phase = "logged",
                              !.file = WrittenFailureLog(retry.failures)]
    /\ UNCHANGED <<orch_vars, client, analysis, parser, odds>>

\* re.findall(r'URL: (https://www\.racingpost\.com/[^\s]+)', content): the
\* text after every 'URL: ' in the file.
parse_failure_log(file) ==
    LET hits == SelectSeq(file.lines, LAMBDA l : l.key = "URL: ")
    IN  [i \in 1..Len(hits) |-> hits[i].text]

\* retry_failed_races(failure_log_path): the URLs handed to scrape_races,
\* none when the log holds no URL.
retry_failed_races(file) == parse_failure_log(file)

\* --log <path> with the path the run printed.
RetryLog ==
    /\ retry.phase = "logged"
    /\ retry' = [retry EXCEPT !.phase = "retried",
                              !.found = 1,
                              !.resubmitted = retry_failed_races(retry.file)]
    /\ UNCHANGED <<orch_vars, client, analysis, parser, odds>>

\* find_and_retry_all_failures: every file whose name ends with
\* '_failures.log' is retried.
find_and_retry_all_failures ==
    /\ retry.phase = "logged"
    /\ IF retry.file.suffix = "_failures.log"
       THEN retry' = [retry EXCEPT !.phase = "retried",
                                   !.found = 1,
                                   !.resubmitted = retry_failed_races(retry.file)]
       ELSE retry' = [retry EXCEPT !.phase = "retried"]
    /\ UNCHANGED <<orch_vars, client, analysis, parser, odds>>

RetryNext ==
    \/ WriteFailureLog
    \/ RetryLog
    \/ find_and_retry_all_failures

SpecRetry == RetryInit /\ [][RetryNext]_vars

\* C17: once the retry tool has run over the failure log of a run, the URLs
\* it has re-submitted to scrape_races are exactly the URLs of the run's
\* failure records: every one of them, and no other.
C17_LogReplayedByRetryTool ==
    (retry.phase = "retried") =>
        /\ \A i \in 1..Len(retry.failures) :
              \E j \in 1..Len(retry.resubmitted) :
                 retry.resubmitted[j] = ToString(retry.failures[i].url)
        /\ \A j \in 1..Len(retry.resubmitted) :
              \E i \in 1..Len(retry.failures) :
                 retry.resubmitted[j] = ToString(retry.failures[i].url)

\* ------------------------------------------- per-runner arrays of a page
\* The i-th text node an xpath query found, as 'p1', 'd2', ...
Nodes(tag, n) == [i \in 1..n |-> tag \o ToString(i)]
\* n empty strings: ['' for x in range(n)]
Blanks(n) == [i \in 1..n |-> ""]

\* The result pages the markup can form: pos has one entry per runner; the
\* prize-money query finds a heading and up to one amount per runner; the draw,
\* beaten-distance and comment queries find up to one node per runner.
ResultPages ==
    UNION {[runners : {n}, prizes : 0..(n + 1), draw : 0..n, btn : 0..n, coms : 0..n] :
               n \in 1..MaxRunners}

\* del prize[0]; for i in range(len(pos) - len(prize)): prize.append('')
\* except IndexError: prize = ['' for x in range(len(pos))]
PrizeArray(found, runners) ==
    IF found = 0 THEN Blanks(runners)
    ELSE LET prize == Tail(Nodes("p", found))
         IN  IF Len(prize) < runners THEN prize \o Blanks(runners - Len(prize)) ELSE prize

\* if len(btn) < len(pos): btn.extend(['' for x in range(len(pos) - len(btn))])
BtnArray(found, runners) ==
    IF found < runners THEN Nodes("b", found) \o Blanks(runners - found)
    ELSE Nodes("b", found)

\* zip(...): as many tuples as the shortest array has entries.
Zip(pos, prize, draw, btn, coms) ==
    LET shortest == Min(Len(pos), Min(Len(prize), Min(Len(draw), Min(Len(btn), Len(coms)))))
    IN  [i \in 1..shortest |-> <<pos[i], prize[i], draw[i], btn[i], coms[i]>>]

ParserInit ==
    /\ parser \in {[phase |-> "fetched", page |-> pg, pos |-> <<>>, prize |-> <<>>,
                    draw |-> <<>>, btn |-> <<>>, coms |-> <<>>, rows |-> <<>>,
                    parse_error |-> FALSE] : pg \in ResultPages}
    /\ races = <<>> /\ idx = 0 /\ pc = Idle /\ failed_races = <<>>
    /\ successful_races = 0 /\ void_races = 0 /\ consecutive_406_errors = 0
    /\ current_delay = base_delay /\ csv = <<>> /\ fetched = <<>> /\ outcomes = <<>>
    /\ last_sleep = NoSleep /\ metadata = <<>> /\ pages = <<>>
    /\ metadata_writes = 0 /\ failure_log = NoFile
    /\ client = Idle /\ analysis = Idle /\ retry = Idle /\ odds = Idle

\* The body of the loop over the races of scrape_races (legacy script): the
\* arrays are extracted, two of them are extended to len(pos), and one row is
\* written for every tuple zip yields. No branch raises for a short array.
ParsePage ==
    /\ parser.phase = "fetched"
    /\ LET n    == parser.page.runners
           pos  == Nodes("pos", n)
           prz  == PrizeArray(parser.page.prizes, n)
           drw  == Nodes("d", parser.page.draw)
           bt   == BtnArray(parser.page.btn, n)
           cms  == Nodes("c", parser.page.coms)
       IN  parser' = [parser EXCEPT !.phase = "written",
                                    !.pos = pos, !.prize = prz, !.draw = drw,
                                    !.btn = bt, !.coms = cms,
                                    !.rows = Zip(pos, prz, drw, bt, cms),
                                    !.parse_error = FALSE]
    /\ UNCHANGED <<orch_vars, client, analysis, retry, odds>>

ParserNext == ParsePage

SpecParser == ParserInit /\ [][ParserNext]_vars

\* C19: whenever rows have been written for a page, every per-runner array
\* has as many entries as the page has runners (a shorter one having been
\* backfilled) and one row was written per runner: rows are never written for
\* a truncated subset of the runners.
C19_ArraysMatchRunnerCount ==
    (parser.phase = "written" /\ parser.rows # <<>>) =>
        /\ ~parser.parse_error
        /\ Len(parser.pos) = parser.page.runners
        /\ Len(parser.prize) = parser.page.runners
        /\ Len(parser.draw) = parser.page.runners
        /\ Len(parser.btn) = parser.page.runners
        /\ Len(parser.coms) = parser.page.runners
        /\ Len(parser.rows) = parser.page.runners

\* ------------------------------------------------ fractional odds to decimal
\* Longest list of odds converted.
MaxOdds == 2

\* Strings are sequences of characters here, so that lower(), 'in', split()
\* and float() are computed on the text.
UpperCase == <<"A", "B", "C", "D", "E", "F", "G", "H", "I", "J", "K", "L", "M",
               "N", "O", "P", "Q", "R", "S", "T", "U", "V", "W", "X", "Y", "Z">>
LowerCase == <<"a", "b", "c", "d", "e", "f", "g", "h", "i", "j", "k", "l", "m",
               "n", "o", "p", "q", "r", "s", "t", "u", "v", "w", "x", "y", "z">>
Digits == <<"0", "1", "2", "3", "4", "5", "6", "7", "8", "9">>

\* The starting prices of the runners as the page gives them, after the
\* favourite marks are stripped and 'No Odds' is kept or blanked.
OddsTexts ==
    { <<>>,
      <<"N", "o", " ", "O", "d", "d", "s">>,
      <<"E", "v", "e", "n", "s">>,
      <<"E", "V", "E", "N", "S">>,
      <<"e", "v", "e", "n", "s">>,
      <<"E", "v", "s">>,
      <<"E", "V", "S">>,
      <<"e", "v", "s">>,
      <<"9", "/", "2">>,
      <<"1", "/", "8">>,
      <<"1", "3", "/", "8">>,
      <<"1", "0", "/", "3">>,
      <<"1", "0", "0", "/", "3", "0">>,
      <<"5", "/", "1">> }

OddsLists == UNION {[1..n -> OddsTexts] : n \in 0..MaxOdds}

\* str.lower()
lower(text) ==
    [i \in 1..Len(text) |->
        IF \E k \in 1..26 : UpperCase[k] = text[i]
        THEN LowerCase[CHOOSE k \in 1..26 : UpperCase[k] = text[i]]
        ELSE text[i]]

\* sub in text
Contains(text, sub) ==
    \E k \in 0..(Len(text) - Len(sub)) : SubSeq(text, k + 1, k + Len(sub)) = sub

\* Position of the first sep in text, Len(text) + 1 when there is none.
RECURSIVE FirstIndex(_, _, _)
FirstIndex(text, sep, from) ==
    IF from > Len(text) THEN Len(text) + 1
    ELSE IF text[from] = sep THEN from
    ELSE FirstIndex(text, sep, from + 1)

\* text.split('/')[0]
SplitFirst(text) == SubSeq(text, 1, FirstIndex(text, "/", 1) - 1)

\* text.split(sep)[1]
SplitSecondBy(text, sep) ==
    LET first == FirstIndex(text, sep, 1)
    IN  SubSeq(text, first + 1, FirstIndex(text, sep, first + 1) - 1)

\* text.split('/')[1]
SplitSecond(text) ==
    LET first == FirstIndex(text, "/", 1)
    IN  SubSeq(text, first + 1, FirstIndex(text, "/", first + 1) - 1)

\* float(text) of a string of digits
RECURSIVE float(_)
float(text) ==
    IF text = <<>> THEN 0
    ELSE 10 * float(SubSeq(text, 1, Len(text) - 1))
         + (CHOOSE d \in 0..9 : Digits[d + 1] = text[Len(text)])

\* '{0:.2f}'.format(num / den): the nearest hundredth, written with two
\* decimals.
Format2f(num, den) ==
    LET h == RoundHalfEven(100 * num, den)
    IN  ToString(h \div 100) \o "." \o ToString((h % 100) \div 10) \o ToString(h % 10)

\* Variant of DecimalOdds: the stake (+ 1.00) is left out.
DecimalOdds_WithoutStake(fraction) ==
    IF fraction = <<>> \/ fraction = <<"N", "o", " ", "O", "d", "d", "s">> THEN ""
    ELSE IF Contains(lower(fraction), <<"e", "v", "e", "n", "s">>)
            \/ lower(fraction) = <<"e", "v", "s">> THEN "2.00"
    ELSE Format2f(float(SplitFirst(fraction)), float(SplitSecond(fraction)))

\* The body of the loop of fraction_to_decimal: what is appended for one
\* fraction. N / D + 1.00 is (N + D) / D.
DecimalOdds(fraction) ==
    IF fraction = <<>> \/ fraction = <<"N", "o", " ", "O", "d", "d", "s">> THEN ""
    ELSE IF Contains(lower(fraction), <<"e", "v", "e", "n", "s">>)
            \/ lower(fraction) = <<"e", "v", "s">> THEN "2.00"
    ELSE Format2f(float(SplitFirst(fraction)) + float(SplitSecond(fraction)),
                  float(SplitSecond(fraction)))

\* fraction_to_decimal(fractions)
fraction_to_decimal(fractions) == [i \in 1..Len(fractions) |-> DecimalOdds(fractions[i])]

OddsInit ==
    /\ odds \in {[phase |-> "fractions", fractions |-> f, decimal |-> <<>>] : f \in OddsLists}
    /\ races = <<>> /\ idx = 0 /\ pc = Idle /\ failed_races = <<>>
    /\ successful_races = 0 /\ void_races = 0 /\ consecutive_406_errors = 0
    /\ current_delay = base_delay /\ csv = <<>> /\ fetched = <<>> /\ outcomes = <<>>
    /\ last_sleep = NoSleep /\ metadata = <<>> /\ pages = <<>>
    /\ metadata_writes = 0 /\ failure_log = NoFile
    /\ client = Idle /\ analysis = Idle /\ retry = Idle /\ parser = Idle

\* dec = fraction_to_decimal([...])
ConvertOdds ==
    /\ odds.phase = "fractions"
    /\ odds' = [odds EXCEPT !.phase = "decimal",
                            !.decimal = fraction_to_decimal(odds.fractions)]
    /\ UNCHANGED <<orch_vars, client, analysis, retry, parser>>

OddsNext == ConvertOdds

SpecOdds == OddsInit /\ [][OddsNext]_vars

\* The decimal odds of the fractions of OddsTexts, worked out by hand.
ExpectedDecimal(fraction) ==
    CASE fraction = <<>> -> ""
      [] fraction = <<"N", "o", " ", "O", "d", "d", "s">> -> ""
      [] fraction = <<"9", "/", "2">> -> "5.50"
      [] fraction = <<"1", "/", "8">> -> "1.12"
      [] fraction = <<"1", "3", "/", "8">> -> "2.62"
      [] fraction = <<"1", "0", "/", "3">> -> "4.33"
      [] fraction = <<"1", "0", "0", "/", "3", "0">> -> "4.33"
      [] fraction = <<"5", "/", "1">> -> "6.00"
      [] OTHER -> "2.00"

\* C20: fraction_to_decimal converts element by element, keeping length and
\* order: the i-th result is the decimal odds of the i-th fraction alone, N/D
\* giving N/D + 1 with two decimals ("9/2" gives "5.50"), "Evens" and "Evs" in
\* any case giving "2.00", and "" and "No Odds" giving the empty string.
C20_FractionToDecimalElementwise ==
    (odds.phase = "decimal") =>
        /\ Len(odds.decimal) = Len(odds.fractions)
        /\ \A i \in 1..Len(odds.fractions) :
              odds.decimal[i] = ExpectedDecimal(odds.fractions[i])

\* C20 witness: "EVS" followed by "9/2" was converted to "2.00", "5.50".
C20_Witness ==
    /\ odds.phase = "decimal"
    /\ odds.fractions = << <<"E", "V", "S">>, <<"9", "/", "2">> >>
    /\ odds.decimal = <<"2.00", "5.50">>

\* ------------------------------------------ agreement of the two analyses
\* The analysed failures are three or more and any two of them are less than
\* 120 s apart.
AnalysedBurst ==
    /\ Len(analysis.failures) >= 3
    /\ \A i, j \in 1..Len(analysis.failures) :
          analysis.failures[i].timestamp - analysis.failures[j].timestamp < 120

\* C30 as stated: a pattern of all_rate_limited, mostly_rate_limited or
\* mixed_with_rate_limiting comes with likely_rate_limited true, and the
\* pattern none with likely_rate_limited false.
C30_Original ==
    (analysis.stage = "analysed") =>
        /\ analysis.error_pattern \in {"all_rate_limited", "mostly_rate_limited",
                                       "mixed_with_rate_limiting"}
               => analysis.rate_limited
        /\ analysis.error_pattern = "none" => ~analysis.rate_limited

\* C30 amended: all_rate_limited and mostly_rate_limited come with
\* likely_rate_limited true and none with false; mixed_with_rate_limiting
\* comes with false only when exactly half of the failures are block-type and
\* the failures are not three or more within 120 s.
C30_Amended ==
    (analysis.stage = "analysed") =>
        /\ analysis.error_pattern \in {"all_rate_limited", "mostly_rate_limited"}
               => analysis.rate_limited
        /\ analysis.error_pattern = "none" => ~analysis.rate_limited
        /\ (analysis.error_pattern = "mixed_with_rate_limiting" /\ ~analysis.rate_limited)
               => /\ 2 * BlockShare = Len(analysis.failures)
                  /\ ~AnalysedBurst

\* C30 witness: one block and one parse error: mixed_with_rate_limiting, and
\* not likely rate limited.
C30_Witness ==
    /\ analysis.stage = "analysed"
    /\ Len(analysis.failures) = 2
    /\ BlockShare = 1
    /\ analysis.error_pattern = "mixed_with_rate_limiting"
    /\ ~analysis.rate_limited

\* ------------------------------------------------------- beaten lengths
\* Most length cells on a page.
MaxCells == 3

\* Strings are sequences of characters; the fraction glyphs are the single
\* characters written "(1/4)", "(1/2)" and "(3/4)" here.
NoText == <<"None">>

\* Texts of the first span of a length cell (the margin to the runner ahead).
MarginTexts ==
    { <<"d", "h", "t">>,
      <<"n", "k">>,
      <<"s", "n", "k">>,
      <<"h", "d">>,
      <<"s", "h", "d">>,
      <<"s", "h", "t", "-", "h", "d">>,
      <<"n", "s", "e">>,
      <<"d", "i", "s", "t">>,
      <<"(3/4)">>,
      <<"1", "(1/2)">>,
      <<"2", "(1/4)">>,
      <<"3">> }

\* The length cells of a page: one span (the margin alone, or no text), or two
\* spans (the margin and the overall distance in square brackets).
LengthCells ==
    {[spans |-> 1, first |-> t, second |-> NoText] : t \in MarginTexts \cup {NoText}}
    \cup {[spans |-> 2, first |-> NoText, second |-> NoText],
          [spans |-> 2, first |-> <<"n", "k">>, second |-> <<"[", "1", "(3/4)", "]">>],
          [spans |-> 2, first |-> <<"d", "h", "t">>, second |-> <<"[", "2", "]">>],
          [spans |-> 2, first |-> <<"(1/2)">>, second |-> <<"[", "5", "]">>]}

LengthPages == UNION {[1..n -> LengthCells] : n \in 1..MaxCells}

\* str.strip(chars)
RECURSIVE LStrip(_, _)
LStrip(text, chars) ==
    IF text # <<>> /\ Head(text) \in chars THEN LStrip(Tail(text), chars) ELSE text

RECURSIVE RStrip(_, _)
RStrip(text, chars) ==
    IF text # <<>> /\ text[Len(text)] \in chars
    THEN RStrip(SubSeq(text, 1, Len(text) - 1), chars)
    ELSE text

Strip(text, chars) == RStrip(LStrip(text, chars), chars)

\* str.replace(old, new): every occurrence, left to right.
RECURSIVE Replace(_, _, _)
Replace(text, old, new) ==
    IF Len(text) < Len(old) THEN text
    ELSE IF SubSeq(text, 1, Len(old)) = old
         THEN new \o Replace(SubSeq(text, Len(old) + 1, Len(text)), old, new)
         ELSE <<Head(text)>> \o Replace(Tail(text), old, new)

\* The chain of .replace(old, new) calls, in the order of the source.
glyph_replacements ==
    << <<<<"(1/4)">>, <<".", "2", "5">>>>,
       <<<<"(1/2)">>, <<".", "5">>>>,
       <<<<"(3/4)">>, <<".", "7", "5">>>>,
       <<<<"s", "n", "k">>, <<"0", ".", "2">>>>,
       <<<<"n", "k">>, <<"0", ".", "3">>>>,
       <<<<"s", "h", "t", "-", "h", "d">>, <<"0", ".", "1">>>>,
       <<<<"s", "h", "d">>, <<"0", ".", "1">>>>,
       <<<<"h", "d">>, <<"0", ".", "2">>>>,
       <<<<"n", "s", "e">>, <<"0", ".", "0", "5">>>>,
       <<<<"d", "h", "t">>, <<"0">>>>,
       <<<<"d", "i", "s", "t">>, <<"3", "0">>>> >>

RECURSIVE ReplaceChain(_, _)
ReplaceChain(text, table) ==
    IF table = <<>> THEN text
    ELSE ReplaceChain(Replace(text, Head(table)[1], Head(table)[2]), Tail(table))

\* b.strip().strip("[]").replace(...)...: the element of btn or ovr_btn after
\* the glyphs are resolved (the brackets only occur in ovr_btn).
ResolveGlyphs(text) ==
    ReplaceChain(Strip(Strip(text, {" "}), {"[", "]"}), glyph_replacements)

\* The loop over the length cells: btn and ovr_btn as raw texts.
RECURSIVE RawLengths(_)
RawLengths(cells) ==
    IF cells = <<>> THEN [btn |-> <<>>, ovr_btn |-> <<>>]
    ELSE LET before == RawLengths(SubSeq(cells, 1, Len(cells) - 1))
             cell   == cells[Len(cells)]
             zero   == <<"0">>
         IN  IF cell.spans = 2
             THEN [btn |-> Append(before.btn,
                                  IF cell.first = NoText THEN zero ELSE cell.first),
                   ovr_btn |-> Append(before.ovr_btn,
                                  IF cell.second = NoText THEN zero
                                  ELSE Strip(cell.second, {"[", "]"}))]
             ELSE IF cell.first = NoText
             THEN [btn |-> Append(before.btn, zero),
                   ovr_btn |-> Append(before.ovr_btn, zero)]
             ELSE IF cell.first = <<"d", "h", "t">>
             THEN [btn |-> Append(before.btn, cell.first),
                   ovr_btn |-> Append(before.ovr_btn,
                                  IF before.ovr_btn # <<>>
                                  THEN before.ovr_btn[Len(before.ovr_btn)]
                                  ELSE cell.first)]
             ELSE [btn |-> Append(before.btn, cell.first),
                   ovr_btn |-> Append(before.ovr_btn, cell.first)]

LengthsInit ==
    /\ parser \in {[phase |-> "cells", cells |-> c, btn |-> <<>>, ovr_btn |-> <<>>] :
                       c \in LengthPages}
    /\ races = <<>> /\ idx = 0 /\ pc = Idle /\ failed_races = <<>>
    /\ successful_races = 0 /\ void_races = 0 /\ consecutive_406_errors = 0
    /\ current_delay = base_delay /\ csv = <<>> /\ fetched = <<>> /\ outcomes = <<>>
    /\ last_sleep = NoSleep /\ metadata = <<>> /\ pages = <<>>
    /\ metadata_writes = 0 /\ failure_log = NoFile
    /\ client = Idle /\ analysis = Idle /\ retry = Idle /\ odds = Idle

\* btn and ovr_btn are collected from the cells and their glyphs resolved.
ResolveLengths ==
    /\ parser.phase = "cells"
    /\ LET raw == RawLengths(parser.cells)
       IN  parser' = [parser EXCEPT
               !.phase = "lengths",
               !.btn = [i \in 1..Len(raw.btn) |-> ResolveGlyphs(raw.btn[i])],
               !.ovr_btn = [i \in 1..Len(raw.ovr_btn) |-> ResolveGlyphs(raw.ovr_btn[i])]]
    /\ UNCHANGED <<orch_vars, client, analysis, retry, odds>>

LengthsNext == ResolveLengths

SpecLengths == LengthsInit /\ [][LengthsNext]_vars

\* The table value of every text of the pages, worked out by hand.
TableValue(text) ==
    CASE text = <<"d", "h", "t">> -> <<"0">>
      [] text = <<"n", "k">> -> <<"0", ".", "3">>
      [] text = <<"s", "n", "k">> -> <<"0", ".", "2">>
      [] text = <<"h", "d">> -> <<"0", ".", "2">>
      [] text = <<"s", "h", "d">> -> <<"0", ".", "1">>
      [] text = <<"s", "h", "t", "-", "h", "d">> -> <<"0", ".", "1">>
      [] text = <<"n", "s", "e">> -> <<"0", ".", "0", "5">>
      [] text = <<"d", "i", "s", "t">> -> <<"3", "0">>
      [] text = <<"(3/4)">> -> <<".", "7", "5">>
      [] text = <<"(1/2)">> -> <<".", "5">>
      [] text = <<"1", "(1/2)">> -> <<"1", ".", "5">>
      [] text = <<"2", "(1/4)">> -> <<"2", ".", "2", "5">>
      [] text = <<"3">> -> <<"3">>
      [] text = <<"[", "1", "(3/4)", "]">> -> <<"1", ".", "7", "5">>
      [] text = <<"[", "2", "]">> -> <<"2">>
      [] text = <<"[", "5", "]">> -> <<"5">>
      [] text = <<"0">> -> <<"0">>
      [] text = NoText -> <<"0">>

\* The margin of cell i is the dead-heat sentinel.
IsDeadHeat(i) == parser.cells[i].first = <<"d", "h", "t">>

\* Every margin resolves to its table value.
MarginsResolved ==
    /\ Len(parser.btn) = Len(parser.cells)
    /\ Len(parser.ovr_btn) = Len(parser.cells)
    /\ \A i \in 1..Len(parser.cells) : parser.btn[i] = TableValue(parser.cells[i].first)

\* C21: every shorthand resolves to its table value, and every runner after
\* the first whose margin is the dead-heat sentinel has the overall-beaten
\* value of the runner before it.
C21_DeadHeatInheritsPrevious ==
    (parser.phase = "lengths") =>
        /\ MarginsResolved
        /\ \A i \in 2..Len(parser.cells) :
              IsDeadHeat(i) => parser.ovr_btn[i] = parser.ovr_btn[i - 1]

\* ------------------------------------------ the run under sustained blocking
\* Longest URL list of the runs whose termination is checked.
MaxLiveUrls == 2

\* The orchestrator with the client's attempts as steps of their own:
\* client.url is the position of the URL being fetched and client.attempts the
\* number of its attempts that were answered with the block status so far.
LiveInit ==
    /\ races \in {[i \in 1..n |-> i] : n \in 0..MaxLiveUrls}
    /\ idx = 0 /\ pc = "loop" /\ failed_races = <<>>
    /\ successful_races = 0 /\ void_races = 0 /\ consecutive_406_errors = 0
    /\ current_delay = base_delay /\ csv = <<"header">> /\ fetched = <<>>
    /\ outcomes = <<>> /\ last_sleep = NoSleep /\ metadata = <<>> /\ pages = <<>>
    /\ metadata_writes = 0 /\ failure_log = NoFile
    /\ client = [url |-> 0, attempts |-> 0]
    /\ analysis = Idle /\ retry = Idle /\ parser = Idle /\ odds = Idle

\* Block answers the current URL has had so far.
BlockedAttempts == IF client.url = idx + 1 THEN client.attempts ELSE 0

\* Variant of RetryInsideClient: the attempt counter starts again when the
\* budget is reached.
RetryInsideClient_BudgetReset ==
    /\ pc = "loop" /\ idx < Len(races)
    /\ client' = [url |-> idx + 1, attempts |-> (BlockedAttempts % (client_attempts - 1)) + 1]
    /\ UNCHANGED <<orch_vars, analysis, retry, parser, odds>>

\* An attempt is answered with the block status and the budget allows another
\* attempt: the client waits and tries again.
RetryInsideClient ==
    /\ pc = "loop" /\ idx < Len(races)
    /\ BlockedAttempts + 1 < client_attempts
    /\ client' = [url |-> idx + 1, attempts |-> BlockedAttempts + 1]
    /\ UNCHANGED <<orch_vars, analysis, retry, parser, odds>>

\* The last attempt of the budget is answered with the block status too:
\* Persistent406Error reaches the orchestrator.
BlockedAfterBudget ==
    /\ BlockedAttempts + 1 = client_attempts
    /\ HandleBlocked

LiveNext ==
    \/ RetryInsideClient
    \/ BlockedAfterBudget
    \/ HandleHttpError
    \/ HandleSuccess
    \/ HandleVoid
    \/ HandleParseError
    \/ HandleException
    \/ HandleWriteError
    \/ Finish

\* Every call returns: a request is cut off by the client's timeout and a
\* sleep is finite, so the single thread keeps taking steps.
SpecLive == LiveInit /\ [][LiveNext]_vars /\ WF_vars(LiveNext)

\* C22: whatever the publisher answers, the run gets past the last URL and
\* writes the run metadata.
C22_RunEventuallyWritesMetadata ==
    <>(pc = "done" /\ idx = Len(races) /\ metadata_writes = 1)

\* C22 witness: every attempt for every URL was answered with the block
\* status, and the run has finished.
C22_Witness ==
    /\ pc = "done"
    /\ Len(races) = MaxLiveUrls
    /\ consecutive_406_errors = MaxLiveUrls
    /\ metadata_writes = 1
    /\ client.attempts = client_attempts - 1

\* ------------------------------------------------------------ race class
\* The race names of the pages, the class span of the page, the rating band
\* and the race code.
RaceNames ==
    { <<"A", " ", "C", "u", "p">>,
      <<"B", " ", "(", "C", "l", "a", "s", "s", " ", "3", ")">>,
      <<"C", " ", "(", "C", "l", "a", "s", "s", " ", "D", ")">>,
      <<"D", " ", "(", "L", "i", "s", "t", "e", "d", " ", "R", "a", "c", "e", ")">>,
      <<"E", " ", "(", "G", "r", "o", "u", "p", " ", "1", ")">>,
      <<"F", " ", "(", "G", "r", "a", "d", "e", " ", "2", ")">>,
      <<"G", " ", "(", "C", "l", "a", "s", "s", " ", "4", ")", " ", "(", "L", "i", "s", "t", "e", "d", " ", "R", "a", "c", "e", ")">> }
PageClasses == {<<>>, <<"C", "l", "a", "s", "s", " ", "2">>}
RatingBands == {<<>>, <<"0", "-", "9", "5">>, <<"0", "-", "1", "3", "0">>, <<"0", "-", "5", "0">>}
RaceCodes == {"flat", "jumps"}

\* try_get_class(race)
try_get_class(race) ==
    IF Contains(race, <<"C", "l", "a", "s", "s", " ", "A">>) \/ Contains(race, <<"C", "l", "a", "s", "s", " ", "1">>) THEN <<"C", "l", "a", "s", "s", " ", "1">>
    ELSE IF Contains(race, <<"C", "l", "a", "s", "s", " ", "B">>) \/ Contains(race, <<"C", "l", "a", "s", "s", " ", "2">>) THEN <<"C", "l", "a", "s", "s", " ", "2">>
    ELSE IF Contains(race, <<"C", "l", "a", "s", "s", " ", "C">>) \/ Contains(race, <<"C", "l", "a", "s", "s", " ", "3">>) THEN <<"C", "l", "a", "s", "s", " ", "3">>
    ELSE IF Contains(race, <<"C", "l", "a", "s", "s", " ", "D">>) \/ Contains(race, <<"C", "l", "a", "s", "s", " ", "4">>) THEN <<"C", "l", "a", "s", "s", " ", "4">>
    ELSE IF Contains(race, <<"C", "l", "a", "s", "s", " ", "E">>) \/ Contains(race, <<"C", "l", "a", "s", "s", " ", "5">>) THEN <<"C", "l", "a", "s", "s", " ", "5">>
    ELSE IF Contains(race, <<"C", "l", "a", "s", "s", " ", "F">>) \/ Contains(race, <<"C", "l", "a", "s", "s", " ", "6">>) THEN <<"C", "l", "a", "s", "s", " ", "6">>
    ELSE IF Contains(race, <<"C", "l", "a", "s", "s", " ", "H">>) \/ Contains(race, <<"C", "l", "a", "s", "s", " ", "7">>) THEN <<"C", "l", "a", "s", "s", " ", "7">>
    ELSE IF Contains(race, <<"C", "l", "a", "s", "s", " ", "G">>) THEN <<"C", "l", "a", "s", "s", " ", "6">>
    ELSE IF Contains(race, <<"(", "p", "r", "e", "m", "i", "e", "r", " ", "h", "a", "n", "d", "i", "c", "a", "p", ")">>) THEN <<"C", "l", "a", "s", "s", " ", "2">>
    ELSE <<>>

\* The tail of clean_race_name: the branch `if 'Group' in race`.
CleanGroup(race) ==
    IF ~Contains(race, <<"G", "r", "o", "u", "p">>) THEN race
    ELSE
         IF Contains(race, <<"G", "r", "o", "u", "p", " ", "1">>) \/ Contains(race, <<"G", "r", "a", "d", "e", " ", "1">>)
         THEN Replace(Replace(Replace(race, <<"G", "r", "o", "u", "p", " ", "1">>, <<>>), <<"G", "r", "a", "d", "e", " ", "1">>, <<>>), <<"(", ")">>, <<>>)
         ELSE IF Contains(race, <<"G", "r", "o", "u", "p", " ", "2">>) \/ Contains(race, <<"G", "r", "a", "d", "e", " ", "2">>)
         THEN Replace(Replace(Replace(race, <<"G", "r", "o", "u", "p", " ", "2">>, <<>>), <<"G", "r", "a", "d", "e", " ", "2">>, <<>>), <<"(", ")">>, <<>>)
         ELSE IF Contains(race, <<"G", "r", "o", "u", "p", " ", "3">>) \/ Contains(race, <<"G", "r", "a", "d", "e", " ", "3">>)
         THEN Replace(Replace(Replace(race, <<"G", "r", "o", "u", "p", " ", "3">>, <<>>), <<"G", "r", "a", "d", "e", " ", "3">>, <<>>), <<"(", ")">>, <<>>)
         ELSE race

\* clean_race_name(race); the one sponsor's name of the last 'Class' test is
\* in none of the names. A name with 'Class' but none of the markers falls
\* through to the 'Group' branch.
clean_race_name(race) ==
    IF ~Contains(race, <<"C", "l", "a", "s", "s">>) THEN CleanGroup(race)
    ELSE
         IF Contains(race, <<"C", "l", "a", "s", "s", " ", "A">>) \/ Contains(race, <<"C", "l", "a", "s", "s", " ", "1">>)
         THEN Replace(Replace(Replace(race, <<"C", "l", "a", "s", "s", " ", "A">>, <<>>), <<"C", "l", "a", "s", "s", " ", "1">>, <<>>), <<"(", ")">>, <<>>)
         ELSE IF Contains(race, <<"C", "l", "a", "s", "s", " ", "B">>) \/ Contains(race, <<"C", "l", "a", "s", "s", " ", "2">>)
         THEN Replace(Replace(Replace(race, <<"C", "l", "a", "s", "s", " ", "B">>, <<>>), <<"C", "l", "a", "s", "s", " ", "2">>, <<>>), <<"(", ")">>, <<>>)
         ELSE IF Contains(race, <<"C", "l", "a", "s", "s", " ", "C">>) \/ Contains(race, <<"C", "l", "a", "s", "s", " ", "3">>)
         THEN Replace(Replace(Replace(race, <<"C", "l", "a", "s", "s", " ", "C">>, <<>>), <<"C", "l", "a", "s", "s", " ", "3">>, <<>>), <<"(", ")">>, <<>>)
         ELSE IF Contains(race, <<"C", "l", "a", "s", "s", " ", "D">>) \/ Contains(race, <<"C", "l", "a", "s", "s", " ", "4">>)
         THEN Replace(Replace(Replace(race, <<"C", "l", "a", "s", "s", " ", "D">>, <<>>), <<"C", "l", "a", "s", "s", " ", "4">>, <<>>), <<"(", ")">>, <<>>)
         ELSE IF Contains(race, <<"C", "l", "a", "s", "s", " ", "E">>) \/ Contains(race, <<"C", "l", "a", "s", "s", " ", "5">>)
         THEN Replace(Replace(Replace(race, <<"C", "l", "a", "s", "s", " ", "E">>, <<>>), <<"C", "l", "a", "s", "s", " ", "5">>, <<>>), <<"(", ")">>, <<>>)
         ELSE IF Contains(race, <<"C", "l", "a", "s", "s", " ", "F">>) \/ Contains(race, <<"C", "l", "a", "s", "s", " ", "6">>)
         THEN Replace(Replace(Replace(race, <<"C", "l", "a", "s", "s", " ", "F">>, <<>>), <<"C", "l", "a", "s", "s", " ", "6">>, <<>>), <<"(", ")">>, <<>>)
         ELSE IF Contains(race, <<"C", "l", "a", "s", "s", " ", "H">>) \/ Contains(race, <<"C", "l", "a", "s", "s", " ", "7">>)
         THEN Replace(Replace(Replace(race, <<"C", "l", "a", "s", "s", " ", "H">>, <<>>), <<"C", "l", "a", "s", "s", " ", "7">>, <<>>), <<"(", ")">>, <<>>)
         ELSE IF Contains(race, <<"C", "l", "a", "s", "s", " ", "G">>)
         THEN Replace(Replace(race, <<"C", "l", "a", "s", "s", " ", "G">>, <<>>), <<"(", ")">>, <<>>)
         ELSE CleanGroup(race)

\* \w
WordChars == {UpperCase[k] : k \in 1..26} \cup {LowerCase[k] : k \in 1..26}
             \cup {Digits[k] : k \in 1..10} \cup {"_"}

\* Positions where lit, n more characters and at least one word character
\* start.
MatchStarts(text, lit, n) ==
    {k \in 1..Len(text) :
        /\ k + Len(lit) + n <= Len(text)
        /\ SubSeq(text, k, k + Len(lit) - 1) = lit
        /\ text[k + Len(lit) + n] \in WordChars}

\* The end of the run of word characters that starts at position from.
RECURSIVE WordRunEnd(_, _)
WordRunEnd(text, from) ==
    IF from < Len(text) /\ text[from + 1] \in WordChars
    THEN WordRunEnd(text, from + 1)
    ELSE from

NoMatch == <<"None">>

\* search(lit + n dots + '\w+', text).group(0), NoMatch for None.
Search(text, lit, n) ==
    IF MatchStarts(text, lit, n) = {} THEN NoMatch
    ELSE LET k == CHOOSE k \in MatchStarts(text, lit, n) :
                      \A j \in MatchStarts(text, lit, n) : k <= j
         IN  SubSeq(text, k, WordRunEnd(text, k + Len(lit) + n))

\* The try / except AttributeError pair of searches with two dots, then one.
SearchMarker(text, lit) ==
    IF Search(text, lit, 2) # NoMatch THEN LStrip(RStrip(Search(text, lit, 2), {"("}), {"("})
    ELSE IF Search(text, lit, 1) # NoMatch
         THEN LStrip(RStrip(Search(text, lit, 1), {"("}), {"("})
    ELSE NoMatch

\* try_get_pattern(race, race_class): the class and the pattern it returns;
\* a pattern of NoMatch stands for the AttributeError that ends the program.
try_get_pattern(race, race_class) ==
    LET class1 == <<"C", "l", "a", "s", "s", " ", "1">>
        result(c, pt) == [race_class |-> c, pattern |-> pt]
    IN  IF Contains(race, <<"F", "o", "r", "t", "e", " ", "M", "i", "l", "e">>)
           /\ Contains(race, <<"(", "G", "r", "o", "u", "p">>)
        THEN result(class1, <<"G", "r", "o", "u", "p", " ", "2">>)
        ELSE IF Contains(race, <<"(", "G", "r", "o", "u", "p">>)
        THEN result(class1, SearchMarker(race, <<"(", "G", "r", "o", "u">>))
        ELSE IF Contains(race, <<"(", "G", "r", "a", "d", "e">>)
        THEN result(class1, SearchMarker(race, <<"(", "G", "r", "a", "d">>))
        ELSE IF Contains(race, <<"G", "r", "a", "d", "e">>)
        THEN result(class1, Search(race, <<"G", "r", "a", "d">>, 2))
        ELSE IF Contains(race, <<"(", "L", "o", "c", "a", "l", " ", "G", "r", "o", "u", "p", " ", "1", ")">>)
        THEN result(class1, <<"G", "r", "o", "u", "p", " ", "1">>)
        ELSE IF Contains(race, <<"(", "L", "o", "c", "a", "l", " ", "G", "r", "o", "u", "p", " ", "2", ")">>)
        THEN result(class1, <<"G", "r", "o", "u", "p", " ", "2">>)
        ELSE IF Contains(race, <<"(", "L", "o", "c", "a", "l", " ", "G", "r", "o", "u", "p", " ", "3", ")">>)
        THEN result(class1, <<"G", "r", "o", "u", "p", " ", "3">>)
        ELSE IF Contains(race, <<"(", "L", "i", "s", "t", "e", "d">>)
        THEN result(class1, <<"L", "i", "s", "t", "e", "d">>)
        ELSE result(race_class, <<>>)

\* class_from_rating_band(rating_band, code): by the upper end of the band.
class_from_rating_band(rating_band, code) ==
    LET upper == float(SplitSecondBy(rating_band, "-"))
        class(n) == <<"C", "l", "a", "s", "s", " ", n>>
    IN  IF code = "flat"
        THEN IF upper >= 100 THEN class("2")
             ELSE IF upper >= 90 THEN class("3")
             ELSE IF upper >= 80 THEN class("4")
             ELSE IF upper >= 70 THEN class("5")
             ELSE IF upper >= 60 THEN class("6")
             ELSE IF upper >= 40 THEN class("7")
             ELSE <<>>
        ELSE IF upper >= 140 THEN class("2")
             ELSE IF upper >= 120 THEN class("3")
             ELSE IF upper >= 100 THEN class("4")
             ELSE IF upper >= 85 THEN class("5")
             ELSE <<>>

ClassInit ==
    /\ parser \in {[phase |-> "page", page_class |-> pc0, race_name |-> nm, rating_band |-> rb,
                    code |-> cd, race_class |-> <<>>, pattern |-> <<>>] :
                       pc0 \in PageClasses, nm \in RaceNames, rb \in RatingBands,
                       cd \in RaceCodes}
    /\ races = <<>> /\ idx = 0 /\ pc = Idle /\ failed_races = <<>>
    /\ successful_races = 0 /\ void_races = 0 /\ consecutive_406_errors = 0
    /\ current_delay = base_delay /\ csv = <<>> /\ fetched = <<>> /\ outcomes = <<>>
    /\ last_sleep = NoSleep /\ metadata = <<>> /\ pages = <<>>
    /\ metadata_writes = 0 /\ failure_log = NoFile
    /\ client = Idle /\ analysis = Idle /\ retry = Idle /\ odds = Idle

\* race_class from the page, else try_get_class; clean_race_name;
\* try_get_pattern; class_from_rating_band when the class is still empty.
InferClass ==
    /\ parser.phase = "page"
    /\ LET first   == IF parser.page_class = <<>> THEN try_get_class(parser.race_name)
                      ELSE parser.page_class
           name    == clean_race_name(parser.race_name)
           second  == try_get_pattern(name, first)
           third   == IF second.race_class = <<>> /\ parser.rating_band # <<>>
                      THEN class_from_rating_band(parser.rating_band, parser.code)
                      ELSE second.race_class
       IN  parser' = [parser EXCEPT !.phase = "classified",
                                    !.race_class = third,
                                    !.pattern = second.pattern]
    /\ UNCHANGED <<orch_vars, client, analysis, retry, odds>>

ClassNext == InferClass

SpecClass == ClassInit /\ [][ClassNext]_vars

\* The explicit class marker of every name of RaceNames, read off by hand.
ExplicitMarker(name) ==
    CASE name = <<"B", " ", "(", "C", "l", "a", "s", "s", " ", "3", ")">> -> <<"C", "l", "a", "s", "s", " ", "3">>
      [] name = <<"C", " ", "(", "C", "l", "a", "s", "s", " ", "D", ")">> -> <<"C", "l", "a", "s", "s", " ", "4">>
      [] name = <<"G", " ", "(", "C", "l", "a", "s", "s", " ", "4", ")", " ", "(", "L", "i", "s", "t", "e", "d", " ", "R", "a", "c", "e", ")">> -> <<"C", "l", "a", "s", "s", " ", "4">>
      [] OTHER -> <<>>

\* C23: when the page's class span or the race name carries an explicit
\* class, that class is the race class: a Group/Grade marker, a Listed marker
\* or the rating band never replaces it.
C23_ExplicitClassNeverOverridden ==
    (parser.phase = "classified") =>
        LET explicit == IF parser.page_class # <<>> THEN parser.page_class
                        ELSE ExplicitMarker(parser.race_name)
        IN  explicit # <<>> => parser.race_class = explicit

\* -------------------------------------------------------- sex restriction
\* Race names: a phrase, or none, with and without parentheses around it and
\* with more text or another restriction after it.
SexPhrases ==
    { <<"C", "o", "l", "t", "s", " ", "&", " ", "F", "i", "l", "l", "i", "e", "s">>,
      <<"F", "i", "l", "l", "i", "e", "s", " ", "&", " ", "M", "a", "r", "e", "s">>,
      <<"F", "i", "l", "l", "i", "e", "s">>,
      <<"C", "o", "l", "t", "s", " ", "&", " ", "G", "e", "l", "d", "i", "n", "g", "s">>,
      <<"M", "a", "r", "e", "s", " ", "&", " ", "G", "e", "l", "d", "i", "n", "g", "s">>,
      <<"M", "a", "r", "e", "s">>,
      <<"C", "u", "p">> }
SexRaceNames ==
    {pre \o ph \o suf :
        pre \in {<<"A", " ">>, <<"A", " ", "(">>},
        ph \in SexPhrases,
        suf \in {<<>>, <<")">>, <<" ", "C", "u", "p">>, <<")", " ", "(", "F", "i", "l", "l", "i", "e", "s", ")">>}}

\* sex_restricted(race)
sex_restricted(race) ==
    IF Contains(race, <<"(", "E", "n", "t", "i", "r", "e", " ", "C", "o", "l", "t", "s", " ", "&", " ", "F", "i", "l", "l", "i", "e", "s", ")">>)
           \/ Contains(race, <<"(", "C", "o", "l", "t", "s", " ", "&", " ", "F", "i", "l", "l", "i", "e", "s", ")">>)
    THEN "C & F"
    ELSE IF Contains(race, <<"(", "F", "i", "l", "l", "i", "e", "s", " ", "&", " ", "M", "a", "r", "e", "s", ")">>)
           \/ Contains(race, <<"(", "F", "i", "l", "l", "e", "s", " ", "&", " ", "M", "a", "r", "e", "s", ")">>)
    THEN "F & M"
    ELSE IF Contains(race, <<"(", "F", "i", "l", "l", "i", "e", "s", ")">>)
           \/ Contains(race, <<"F", "i", "l", "l", "i", "e", "s">>)
    THEN "F"
    ELSE IF Contains(race, <<"(", "C", "o", "l", "t", "s", " ", "&", " ", "G", "e", "l", "d", "i", "n", "g", "s", ")">>)
           \/ Contains(race, <<"(", "C", " ", "&", " ", "G", ")">>)
           \/ Contains(race, <<" ", "C", "o", "l", "t", "s", " ", "&", " ", "G", "e", "l", "d", "i", "n", "g", "s", ")">>)
    THEN "C & G"
    ELSE IF Contains(race, <<"(", "M", "a", "r", "e", "s", " ", "&", " ", "G", "e", "l", "d", "i", "n", "g", "s", ")">>)
    THEN "M & G"
    ELSE IF Contains(race, <<"M", "a", "r", "e", "s">>)
    THEN "M"
    ELSE ""

SexInit ==
    /\ parser \in {[phase |-> "name", race_name |-> nm, sex_rest |-> ""] : nm \in SexRaceNames}
    /\ races = <<>> /\ idx = 0 /\ pc = Idle /\ failed_races = <<>>
    /\ successful_races = 0 /\ void_races = 0 /\ consecutive_406_errors = 0
    /\ current_delay = base_delay /\ csv = <<>> /\ fetched = <<>> /\ outcomes = <<>>
    /\ last_sleep = NoSleep /\ metadata = <<>> /\ pages = <<>>
    /\ metadata_writes = 0 /\ failure_log = NoFile
    /\ client = Idle /\ analysis = Idle /\ retry = Idle /\ odds = Idle

\* sex_rest = sex_restricted(race_name)
RestrictSex ==
    /\ parser.phase = "name"
    /\ parser' = [parser EXCEPT !.phase = "restricted",
                                !.sex_rest = sex_restricted(parser.race_name)]
    /\ UNCHANGED <<orch_vars, client, analysis, retry, odds>>

SexNext == RestrictSex

SpecSex == SexInit /\ [][SexNext]_vars

\* The code of the first entry of the ordered list one of whose literals
\* occurs in the name, "" when there is none.
FirstMatch(name, list) ==
    LET hits == {i \in 1..Len(list) : \E lit \in list[i].literals : Contains(name, lit)}
    IN  IF hits = {} THEN ""
        ELSE list[CHOOSE i \in hits : \A j \in hits : i <= j].code

\* The six phrases in their order, as plain text.
PlainPhrases ==
    << [code |-> "C & F", literals |-> {<<"C", "o", "l", "t", "s", " ", "&", " ", "F", "i", "l", "l", "i", "e", "s">>}],
       [code |-> "F & M", literals |-> {<<"F", "i", "l", "l", "i", "e", "s", " ", "&", " ", "M", "a", "r", "e", "s">>}],
       [code |-> "F", literals |-> {<<"F", "i", "l", "l", "i", "e", "s">>}],
       [code |-> "C & G", literals |-> {<<"C", "o", "l", "t", "s", " ", "&", " ", "G", "e", "l", "d", "i", "n", "g", "s">>}],
       [code |-> "M & G", literals |-> {<<"M", "a", "r", "e", "s", " ", "&", " ", "G", "e", "l", "d", "i", "n", "g", "s">>}],
       [code |-> "M", literals |-> {<<"M", "a", "r", "e", "s">>}] >>

\* C24: the result is the code of the first of the six phrases, in their
\* fixed order, that occurs in the race name, and "" when none occurs.
C24_FirstPhraseWins ==
    (parser.phase = "restricted") =>
        parser.sex_rest = FirstMatch(parser.race_name, PlainPhrases)

\* --------------------------------------------------------- runner times
\* Going descriptions, courses, finishing positions and beaten distances of
\* the pages.
Goings ==
    { <<"F", "i", "r", "m">>,
      <<"G", "o", "o", "d", " ", "T", "o", " ", "F", "i", "r", "m">>,
      <<"S", "t", "a", "n", "d", "a", "r", "d">>,
      <<"G", "o", "o", "d">>,
      <<"G", "o", "o", "d", " ", "T", "o", " ", "S", "o", "f", "t">>,
      <<"G", "o", "o", "d", " ", "T", "o", " ", "Y", "i", "e", "l", "d", "i", "n", "g">>,
      <<"S", "o", "f", "t">>,
      <<"H", "e", "a", "v", "y">>,
      <<"Y", "i", "e", "l", "d", "i", "n", "g">>,
      <<"F", "a", "s", "t">> }
Courses == {<<"S", "o", "u", "t", "h", "w", "e", "l", "l", " ", "(", "A", "W", ")">>, <<"A", "s", "c", "o", "t">>}
Positions == {<<"1">>, <<"2">>, <<"P", "U">>, <<"D", "S", "Q">>}
BtnTexts == {<<>>, <<"0", ".", "1">>, <<"3">>}
OvrBtnTexts == {<<>>, <<"5">>}

\* The winning time of the pages, in hundredths of a second (1:40.00).
win_time == 10000
\* lps_scale was never assigned.
Unbound == 0

\* float(text) succeeds: digits, with at most one point among them.
IsNumber(text) ==
    /\ \E i \in 1..Len(text) : text[i] \in {Digits[k] : k \in 1..10}
    /\ \A i \in 1..Len(text) : text[i] \in {Digits[k] : k \in 1..10} \cup {"."}
    /\ Cardinality({i \in 1..Len(text) : text[i] = "."}) <= 1

\* float(text) in hundredths, for a number with at most two decimals.
Hundredths(text) ==
    LET point == FirstIndex(text, ".", 1)
        whole == SubSeq(text, 1, point - 1)
        frac  == SubSeq(text, point + 1, Len(text))
    IN  100 * float(whole)
        + (IF Len(frac) = 0 THEN 0
           ELSE IF Len(frac) = 1 THEN 10 * float(frac)
           ELSE float(SubSeq(frac, 1, 2)))

\* A distance handed on: a number (in hundredths of a length) or not one.
Lengths(h) == [number |-> TRUE, h |-> h]
NotLengths == [number |-> FALSE, h |-> 0]
AsLengths(text) == IF IsNumber(text) THEN Lengths(Hundredths(text)) ELSE NotLengths

\* The element of time_btn for btn x and ovr_btn y:
\* str(float(x) + float(y)) if float(x) < .25 else y; y on ValueError.
TimeBtn(x, y) ==
    IF IsNumber(x) /\ Hundredths(x) < 25
    THEN IF IsNumber(y) THEN Lengths(Hundredths(x) + Hundredths(y)) ELSE AsLengths(y)
    ELSE AsLengths(y)

\* lps_scale as calculate_times sets it, in tenths of a length per second.
\* The first test of the flat branch ends in `or 'Sloppy'`, a non-empty
\* string, so it is true for every going.
lps_scale(going, code, course) ==
    LET southwell == Contains(lower(course), <<"s", "o", "u", "t", "h", "w", "e", "l", "l">>)
        softish   == Contains(going, <<"S", "o", "f", "t">>) \/ Contains(going, <<"Y", "i", "e", "l", "d", "i", "n", "g">>)
    IN  IF code = "flat"
        THEN IF southwell THEN 50 ELSE 60
        ELSE IF Contains(going, <<"F", "i", "r", "m">>) \/ Contains(going, <<"S", "t", "a", "n", "d", "a", "r", "d">>)
             THEN IF southwell THEN 40 ELSE 50
             ELSE IF Contains(going, <<"G", "o", "o", "d">>)
             THEN IF softish THEN 45 ELSE 50
             ELSE IF softish \/ Contains(going, <<"H", "e", "a", "v", "y">>) \/ Contains(going, <<"S", "l", "o", "w">>)
             THEN 40
             ELSE Unbound

\* '{}:{:2.2f}'.format(int(time // 60), time % 60) for time in hundredths.
FormatTime(h) ==
    ToString(h \div 6000) \o ":" \o ToString((h % 6000) \div 100) \o "."
        \o ToString((h % 100) \div 10) \o ToString(h % 10)

TimesInit ==
    /\ parser \in {[phase |-> "row", going |-> g, code |-> cd, course |-> co, pos |-> ps,
                    btn |-> b, ovr_btn |-> o, lps_scale |-> Unbound, time |-> ""] :
                       g \in Goings, cd \in RaceCodes, co \in Courses, ps \in Positions,
                       b \in BtnTexts, o \in OvrBtnTexts}
    /\ races = <<>> /\ idx = 0 /\ pc = Idle /\ failed_races = <<>>
    /\ successful_races = 0 /\ void_races = 0 /\ consecutive_406_errors = 0
    /\ current_delay = base_delay /\ csv = <<>> /\ fetched = <<>> /\ outcomes = <<>>
    /\ last_sleep = NoSleep /\ metadata = <<>> /\ pages = <<>>
    /\ metadata_writes = 0 /\ failure_log = NoFile
    /\ client = Idle /\ analysis = Idle /\ retry = Idle /\ odds = Idle

\* time_btn is built from btn and ovr_btn, then
\* times = calculate_times(win_time, time_btn, going, code, course): the time
\* of the runner, '' when its distance is not a number; the program exits
\* when lps_scale is used without having been assigned. pos is not read.
CalculateTimes ==
    /\ parser.phase = "row"
    /\ LET scale == lps_scale(parser.going, parser.code, parser.course)
           dist  == TimeBtn(parser.btn, parser.ovr_btn)
       IN  parser' =
               IF ~dist.number
               THEN [parser EXCEPT !.phase = "timed", !.lps_scale = scale, !.time = ""]
               ELSE IF scale = Unbound
               THEN [parser EXCEPT !.phase = "exit", !.lps_scale = scale, !.time = ""]
               ELSE [parser EXCEPT
                        !.phase = "timed", !.lps_scale = scale,
                        !.time = FormatTime(RoundHalfEven(win_time * scale + dist.h * 10,
                                                          scale))]
    /\ UNCHANGED <<orch_vars, client, analysis, retry, odds>>

TimesNext == CalculateTimes

SpecTimes == TimesInit /\ [][TimesNext]_vars

\* C25: a runner whose finishing position is not a plain integer has no
\* computed time, whatever its beaten distances are.
C25_NonFinisherHasNoTime ==
    (parser.phase = "timed" /\ parser.pos \notin {<<"1">>, <<"2">>}) => parser.time = ""

\* The factor of the table, in tenths, for the goings of the pages.
TableFactor(going, code, course) ==
    LET flat == code = "flat"
    IN  CASE going \in {<<"F", "i", "r", "m">>, <<"G", "o", "o", "d", " ", "T", "o", " ", "F", "i", "r", "m">>, <<"S", "t", "a", "n", "d", "a", "r", "d">>, <<"F", "a", "s", "t">>} ->
                 IF course = <<"S", "o", "u", "t", "h", "w", "e", "l", "l", " ", "(", "A", "W", ")">> THEN (IF flat THEN 50 ELSE 40)
                 ELSE (IF flat THEN 60 ELSE 50)
          [] going = <<"G", "o", "o", "d">> -> IF flat THEN 60 ELSE 50
          [] going \in {<<"G", "o", "o", "d", " ", "T", "o", " ", "S", "o", "f", "t">>, <<"G", "o", "o", "d", " ", "T", "o", " ", "Y", "i", "e", "l", "d", "i", "n", "g">>} -> IF flat THEN 55 ELSE 45
          [] going \in {<<"S", "o", "f", "t">>, <<"H", "e", "a", "v", "y">>, <<"Y", "i", "e", "l", "d", "i", "n", "g">>} -> IF flat THEN 50 ELSE 40

\* C26: the factor is the one of the table for the going, the race code and
\* the course, and every going has one.
C26_FactorByGoingCodeCourse ==
    (parser.phase \in {"timed", "exit"}) =>
        parser.lps_scale = TableFactor(parser.going, parser.code, parser.course)

\* ----------------------------------------- requests of the legacy scraper
\* Requests for one URL are counted up to this number.
MaxRequests == 8

\* Status codes the publisher answers with.
LegacyStatuses == {200, 403, 404, 503}

\* client.phase is "links" while get_race_links fetches the results page of
\* the date, "races" while scrape_races fetches race client.race of
\* client.races, "finished" after the last race; client.status is the status
\* of the last response for the current URL (0 before the first request).
LegacyInit ==
    /\ client \in {[phase |-> "links", races |-> n, race |-> 0, status |-> 0, requests |-> 0] :
                      n \in 1..MaxLiveUrls}
    /\ races = <<>> /\ idx = 0 /\ pc = Idle /\ failed_races = <<>>
    /\ successful_races = 0 /\ void_races = 0 /\ consecutive_406_errors = 0
    /\ current_delay = base_delay /\ csv = <<>> /\ fetched = <<>> /\ outcomes = <<>>
    /\ last_sleep = NoSleep /\ metadata = <<>> /\ pages = <<>>
    /\ metadata_writes = 0 /\ failure_log = NoFile
    /\ analysis = Idle /\ retry = Idle /\ parser = Idle /\ odds = Idle

LegacyUnchanged == UNCHANGED <<orch_vars, analysis, retry, parser, odds>>

\* r = requests.get(...): one more request for the current URL.
LegacyRequest(status) ==
    client' = [client EXCEPT !.status = status,
                             !.requests = Min(@ + 1, MaxRequests)]

\* get_race_links: the first request for the results page.
GetRaceLinks ==
    /\ client.phase = "links" /\ client.status = 0
    /\ \E status \in LegacyStatuses : LegacyRequest(status)
    /\ LegacyUnchanged

\* get_race_links: while r.status_code == 403: sleep(5); r = requests.get(...)
RetryRaceLinks ==
    /\ client.phase = "links" /\ client.status = 403
    /\ \E status \in LegacyStatuses : LegacyRequest(status)
    /\ LegacyUnchanged

\* get_race_links returns the links of the page (none on an error page) and
\* scrape_races starts on them.
StartRaces ==
    /\ client.phase = "links" /\ client.status \in {200, 404, 503}
    /\ client' = IF client.status = 200
                 THEN [client EXCEPT !.phase = "races", !.race = 1, !.status = 0,
                                     !.requests = 0]
                 ELSE [client EXCEPT !.phase = "finished", !.races = 0]
    /\ LegacyUnchanged

\* scrape_races: r = requests.get(race, ...), the first request for a race.
RequestRace ==
    /\ client.phase = "races" /\ client.status = 0
    /\ \E status \in LegacyStatuses : LegacyRequest(status)
    /\ LegacyUnchanged

\* scrape_races: while r.status_code == 403 or ... == 404 or ... == 503:
\* sleep(2 or 5); r = requests.get(race, ...)
RetryRace ==
    /\ client.phase = "races" /\ client.status \in {403, 404, 503}
    /\ \E status \in LegacyStatuses : LegacyRequest(status)
    /\ LegacyUnchanged

\* The page is parsed and its rows written; on to the next race.
RaceScraped ==
    /\ client.phase = "races" /\ client.status = 200
    /\ client' = IF client.race < client.races
                 THEN [client EXCEPT !.race = @ + 1, !.status = 0, !.requests = 0]
                 ELSE [client EXCEPT !.phase = "finished"]
    /\ LegacyUnchanged

LegacyNext ==
    \/ GetRaceLinks
    \/ RetryRaceLinks
    \/ StartRaces
    \/ RequestRace
    \/ RetryRace
    \/ RaceScraped

\* requests.get returns and sleep ends: the program keeps taking steps.
SpecLegacy == LegacyInit /\ [][LegacyNext]_vars /\ WF_vars(LegacyNext)

\* C27: whatever the publisher answers, the legacy scraper gets past every
\* URL: it reaches the end of its list of races.
C27_LegacyGivesUpOnAUrl == <>(client.phase = "finished")

\* ------------------------------------------ archiving of a retried log
\* What the retried run makes of each URL of the log.
RetriedOutcomes == {"success", "HTTP_406", "PARSE_ERROR"}

\* The logs retry_failed_races can read: a file named ..._failures.log with
\* one 'URL: <url>' line per failed race, and for each URL the outcome the
\* retried run will have.
ReadableLogs ==
    UNION {[1..n -> [url : 1..MaxUrls, outcome : RetriedOutcomes]] : n \in 1..MaxLogged}

LogFileOf(entries) ==
    [suffix |-> "_failures.log",
     lines |-> [i \in 1..Len(entries) |-> [key |-> "URL: ", text |-> entries[i].url]]]

\* What scrape_races returns for the retried URLs:
\* return {'metadata': metadata, 'failures': failed_races}
scrape_races(urls, entries) ==
    LET failed == SelectSeq(entries, LAMBDA en : en.outcome # "success")
    IN  [metadata |-> [total_races_discovered |-> Len(urls),
                       failed_races |-> Len(failed)],
         failures |-> [i \in 1..Len(failed) |->
                          FailureRecord(failed[i].url, failed[i].outcome,
                                        IF failed[i].outcome = "HTTP_406"
                                        THEN client_attempts ELSE 1)]]

\* bool(d) and len(d) of a dict: by its keys.
DictTruthy(d) == DOMAIN d # {}
DictLen(d) == Cardinality(DOMAIN d)

ArchiveInit ==
    /\ retry \in {[phase |-> "logged", entries |-> en, file |-> LogFileOf(en),
                   resubmitted |-> <<>>, suffix |-> "_failures.log",
                   still_failing |-> 0] : en \in ReadableLogs}
    /\ races = <<>> /\ idx = 0 /\ pc = Idle /\ failed_races = <<>>
    /\ successful_races = 0 /\ void_races = 0 /\ consecutive_406_errors = 0
    /\ current_delay = base_delay /\ csv = <<>> /\ fetched = <<>> /\ outcomes = <<>>
    /\ last_sleep = NoSleep /\ metadata = <<>> /\ pages = <<>>
    /\ metadata_writes = 0 /\ failure_log = NoFile
    /\ client = Idle /\ analysis = Idle /\ parser = Idle /\ odds = Idle

\* retry_failed_races(failure_log_path): new_failures = scrape_races(...);
\* if not new_failures: os.rename(... '_failures_resolved.log')
\* else: logger.warning(f'{len(new_failures)} races still failing after retry')
RetryAndArchive ==
    /\ retry.phase = "logged"
    /\ LET failed_urls  == retry_failed_races(retry.file)
           new_failures == scrape_races(failed_urls, retry.entries)
       IN  IF ~DictTruthy(new_failures)
           THEN retry' = [retry EXCEPT !.phase = "retried",
                                       !.resubmitted = failed_urls,
                                       !.suffix = "_failures_resolved.log"]
           ELSE retry' = [retry EXCEPT !.phase = "retried",
                                       !.resubmitted = failed_urls,
                                       !.still_failing = DictLen(new_failures)]
    /\ UNCHANGED <<orch_vars, client, analysis, parser, odds>>

ArchiveNext == RetryAndArchive

SpecArchive == ArchiveInit /\ [][ArchiveNext]_vars

\* Number of URLs of the log that fail again in the retried run.
FailingAgain ==
    Cardinality({i \in 1..Len(retry.entries) : retry.entries[i].outcome # "success"})

\* C28: after the retry the log is renamed to ..._failures_resolved.log
\* exactly when no race of the retried run failed; otherwise it keeps its name
\* and the number of races still failing is reported.
C28_ArchivedIffRetryClean ==
    (retry.phase = "retried") =>
        /\ retry.suffix = "_failures_resolved.log" <=> FailingAgain = 0
        /\ FailingAgain > 0 =>
               /\ retry.suffix = "_failures.log"
               /\ retry.still_failing = FailingAgain

\* ---------------------------------------------------------------------------
\* The rescrape workflow (scripts/rescrape_last_7_days.py): main runs, in
\* order, clean_local_data_directory, delete_from_glue, scrape_date_range and,
\* outside dry-run, verify_local_files, upload_to_glue and cleanup_local_files.
\* The workflow record is held in `retry`; one country is scraped, a local CSV
\* file is named by the number of its date, the dates of the range are
\* 1..days and 0 is a date outside the range.
\* ---------------------------------------------------------------------------

MaxCsvFiles == 2

\* if days_diff > 30: ... return False
max_days == 30

DaysArgs == {0, 1, MaxCsvFiles, max_days + 1}
LocalFiles == SUBSET (0..MaxCsvFiles)
GlueRows == {0, 3}
GlueOutcomes == {"ok", "count_raises", "delete_raises"}

\* start_date = end_date - (days_back - 1), end_date = yesterday:
\* start_date > end_date, or days_diff > 30, fails the validation.
validate_date_range(days_back) ==
    /\ ~(days_back - 1 < 0)
    /\ ~(days_back > max_days)

\* if dry_run: only log what would be deleted; else csv_file.unlink() for
\* every CSV file of the country's directory.
clean_local_data_directory(r, dry_run) ==
    IF dry_run
    THEN r
    ELSE [r EXCEPT !.unlinked = @ + Cardinality(r.csv_files), !.csv_files = {}]

\* Variation of delete_from_glue where the dry-run return is left out.
delete_from_glue_NoDryRunReturn(r, dry_run, outcome) ==
    LET counted == [r EXCEPT !.count_queries = @ + 1]
    IN  IF outcome = "count_raises" THEN [counted EXCEPT !.raised = TRUE]
        ELSE IF r.glue_rows = 0 THEN counted
        ELSE IF outcome = "delete_raises"
             THEN [counted EXCEPT !.delete_statements = @ + 1, !.raised = TRUE]
             ELSE [counted EXCEPT !.delete_statements = @ + 1, !.glue_rows = 0]

\* The SELECT COUNT(*) query always runs; rows_to_delete == 0 returns 0;
\* dry_run returns before the DELETE; otherwise the DELETE statement is
\* started and waited for. An exception of either query is re-raised.
delete_from_glue(r, dry_run, outcome) ==
    LET counted == [r EXCEPT !.count_queries = @ + 1]
    IN  IF outcome = "count_raises" THEN [counted EXCEPT !.raised = TRUE]
        ELSE IF r.glue_rows = 0 THEN counted
        ELSE IF dry_run THEN counted
        ELSE IF outcome = "delete_raises"
             THEN [counted EXCEPT !.delete_statements = @ + 1, !.raised = TRUE]
             ELSE [counted EXCEPT !.delete_statements = @ + 1, !.glue_rows = 0]

\* if dry_run: return len(dates) before any subprocess.run; else one scrape
\* subprocess per date, each of which may or may not leave a file.
scrape_date_range(r, dry_run, written) ==
    IF dry_run
    THEN r
    ELSE [r EXCEPT !.scrape_subprocesses = @ + r.days,
                   !.csv_files = @ \cup written]

\* all_good is lost by a missing expected file or an unexpected file;
\* return actual_count == expected_count and all_good
verify_local_files(r) ==
    LET expected_dates == 1..r.days
        all_good == /\ \A date \in expected_dates : date \in r.csv_files
                    /\ \A csv_file \in r.csv_files : csv_file \in expected_dates
    IN  Cardinality(r.csv_files) = Cardinality(expected_dates) /\ all_good

\* if dry_run: return True without running anything; else run
\* simple_upload_to_s3.py in a subprocess.
upload_to_glue(r, dry_run) ==
    IF dry_run THEN r ELSE [r EXCEPT !.uploads = @ + 1]

\* if dry_run: return; else clean_local_data_directory(countries, False)
cleanup_local_files(r, dry_run) ==
    IF dry_run
    THEN r
    ELSE clean_local_data_directory([r EXCEPT !.cleanups = @ + 1], FALSE)

Exit(r, code) == [r EXCEPT !.step = "exit", !.returncode = code]

RescrapeInit ==
    /\ retry \in {[step |-> "start", dry_run |-> d, skip_cleanup |-> s, yes |-> y,
                   days |-> n, initial_files |-> f, csv_files |-> f,
                   initial_rows |-> g, glue_rows |-> g, unlinked |-> 0,
                   count_queries |-> 0, delete_statements |-> 0,
                   scrape_subprocesses |-> 0, verify |-> "not run",
                   uploads |-> 0, cleanups |-> 0, raised |-> FALSE,
                   returncode |-> 0] :
                  d \in BOOLEAN, s \in BOOLEAN, y \in BOOLEAN, n \in DaysArgs,
                  f \in LocalFiles, g \in GlueRows}
    /\ races = <<>> /\ idx = 0 /\ pc = Idle /\ failed_races = <<>>
    /\ successful_races = 0 /\ void_races = 0 /\ consecutive_406_errors = 0
    /\ current_delay = base_delay /\ csv = <<>> /\ fetched = <<>> /\ outcomes = <<>>
    /\ last_sleep = NoSleep /\ metadata = <<>> /\ pages = <<>>
    /\ metadata_writes = 0 /\ failure_log = NoFile
    /\ client = Idle /\ analysis = Idle /\ parser = Idle /\ odds = Idle

RescrapeUnchanged == UNCHANGED <<orch_vars, client, analysis, parser, odds>>

\* main up to the workflow: validation of the date range, then the
\* confirmation prompt unless --dry-run or --yes.
ValidateAndConfirm ==
    /\ retry.step = "start"
    /\ \E response \in {"yes", "no"} :
          retry' = IF ~validate_date_range(retry.days) THEN Exit(retry, 1)
                   ELSE IF ~retry.dry_run /\ ~retry.yes /\ response # "yes"
                        THEN Exit(retry, 0)
                        ELSE [retry EXCEPT !.step = "clean"]
    /\ RescrapeUnchanged

CleanStep ==
    /\ retry.step = "clean"
    /\ retry' = [clean_local_data_directory(retry, retry.dry_run)
                    EXCEPT !.step = "delete"]
    /\ RescrapeUnchanged

\* An exception of delete_from_glue reaches main's except: return 1.
DeleteStep ==
    /\ retry.step = "delete"
    /\ \E outcome \in GlueOutcomes :
          LET r == delete_from_glue(retry, retry.dry_run, outcome)
          IN  retry' = IF r.raised THEN Exit(r, 1)
                       ELSE [r EXCEPT !.step = "scrape"]
    /\ RescrapeUnchanged

\* After the scrape, a dry run skips the block of verify, upload and cleanup
\* and returns 0.
ScrapeStep ==
    /\ retry.step = "scrape"
    /\ \E written \in SUBSET (0..retry.days) :
          LET r == scrape_date_range(retry, retry.dry_run, written)
          IN  retry' = IF ~retry.dry_run THEN [r EXCEPT !.step = "verify"]
                       ELSE Exit(r, 0)
    /\ RescrapeUnchanged

VerifyStep ==
    /\ retry.step = "verify"
    /\ retry' = IF ~verify_local_files(retry)
                THEN Exit([retry EXCEPT !.verify = "failed"], 1)
                ELSE [retry EXCEPT !.verify = "passed", !.step = "upload"]
    /\ RescrapeUnchanged

UploadStep ==
    /\ retry.step = "upload"
    /\ \E uploaded \in BOOLEAN :
          LET r == upload_to_glue(retry, retry.dry_run)
          IN  retry' = IF ~uploaded THEN Exit(r, 1)
                       ELSE IF ~retry.skip_cleanup THEN [r EXCEPT !.step = "cleanup"]
                       ELSE Exit(r, 0)
    /\ RescrapeUnchanged

CleanupStep ==
    /\ retry.step = "cleanup"
    /\ retry' = Exit(cleanup_local_files(retry, retry.dry_run), 0)
    /\ RescrapeUnchanged

RescrapeNext ==
    \/ ValidateAndConfirm
    \/ CleanStep
    \/ DeleteStep
    \/ ScrapeStep
    \/ VerifyStep
    \/ UploadStep
    \/ CleanupStep

SpecRescrape == RescrapeInit /\ [][RescrapeNext]_vars

\* C29: with --dry-run no local CSV file is deleted, no DELETE statement is
\* issued against the Glue table, no scrape subprocess is started and neither
\* the upload nor the cleanup step runs, at every point of main; outside
\* dry-run the upload runs only after verify_local_files has passed.
C29_DryRunMakesNoChanges ==
    /\ retry.dry_run =>
          /\ retry.csv_files = retry.initial_files
          /\ retry.unlinked = 0
          /\ retry.delete_statements = 0
          /\ retry.glue_rows = retry.initial_rows
          /\ retry.scrape_subprocesses = 0
          /\ retry.verify = "not run"
          /\ retry.uploads = 0
          /\ retry.cleanups = 0
    /\ retry.uploads > 0 => retry.verify = "passed"

\* A dry run that went through the whole workflow with files to delete and
\* rows to delete, and returned 0.
C29_Witness ==
    /\ retry.dry_run
    /\ retry.step = "exit" /\ retry.returncode = 0
    /\ retry.initial_files # {}
    /\ retry.initial_rows > 0
    /\ retry.count_queries = 1

\* A real run that uploaded and cleaned up.
RealRunUploaded ==
    /\ ~retry.dry_run
    /\ retry.step = "exit" /\ retry.returncode = 0
    /\ retry.uploads = 1 /\ retry.cleanups = 1 /\ retry.verify = "passed"

====
